---- MODULE Spec2Model ----
(***************************************************************************)
(* The instance relocation engine of the incus client: cmdMove.Run and     *)
(* cmdMove.moveInstance (src/cmd/lxc-to-incus/main_migrate.go, lines 636   *)
(* to 1003), together with the servers the engine talks to.                *)
(*                                                                         *)
(* Strings that the code splits (flag entries such as key=value) are       *)
(* sequences of tokens, e.g. <<"k1", "=", "v1">>; all other strings are    *)
(* TLA+ strings.  A nil slice or map is the empty sequence <<>>.           *)
(*                                                                         *)
(* With it, two handlers of the daemon: instanceLogDelete and              *)
(* validLogFileName (src/cmd/incusd/instance_logs.go), and networkACLPut   *)
(* with the handlers that delete, rename and create a network ACL          *)
(* (src/cmd/incusd/network_acls.go).  A file name is a sequence of tokens  *)
(* too, e.g. <<"migration_", "x", ".log">> or <<"..", "/", "lxc", ".log">>.*)
(*                                                                         *)
(* Further programs of the repository, each with its own specification:    *)
(* cmdMigrate.RunE and convertContainer of lxc-to-incus (SpecMigrate), the *)
(* exec-output handlers of the daemon (SpecExec), and daemonStorageMove    *)
(* (src/internal/server/network/ovs/ovs.go, SpecStorage).                  *)
(***************************************************************************)
EXTENDS Integers, Sequences, FiniteSets, TLC

VARIABLES
    c,           \* the cmdMove receiver: the flag values of this invocation
    args,        \* the positional arguments, one resource token each
    extensions,  \* the API extensions the source server advertises
    clustered,   \* whether the source server is clustered
    expanded,    \* the expanded devices of the instance, as the source server holds them
    pc,          \* position of the flow of control inside Run
    result,      \* the error Run returned (Nil for success), once pc = "done"
    strategy,    \* the execution strategy Run took
    calls,       \* log of the calls made on the connection provider
    ops,         \* the operations submitted to the servers, in order
    instances,   \* the coordinates at which the instance exists on the servers
    copyArgs,    \* what Run handed to copyInstance
    copyRet,     \* what copyInstance returned
    req,         \* the api.InstancePost that moveInstance built
    inst,        \* the instance object moveInstance fetched
    cancelAt,    \* status of the operation when the caller's interrupt was observed
    logReq,      \* the DELETE request on instances/{name}/logs/{file}
    logFiles,    \* the paths, relative to the instance's log directory, that exist
    logEvents,   \* the lifecycle events instanceLogDelete has sent
    logResp,     \* the response of instanceLogDelete, "none" before it
    aclDB,       \* the network ACLs as the database holds them, by id
    aclReqs,     \* the PUT and PATCH requests on the ACL, each with its position
    aclOther,    \* the request of another handler of network ACLs, with its position
    aclEvents,   \* the lifecycle events the handlers of network ACLs have sent
    migFlags,    \* lxc-to-incus: the flags of cmdMigrate
    lxc,         \* lxc-to-incus: the containers liblxc.Containers lists, in order
    lxcPresent,  \* lxc-to-incus: the names of the LXC containers that still exist
    incusNames,  \* lxc-to-incus: the names of the instances the daemon holds
    migPc,       \* lxc-to-incus: position of the flow of control inside RunE
    migI,        \* lxc-to-incus: index in lxc of the container RunE visits next
    migLog,      \* lxc-to-incus: what RunE did with each container it visited
    migResult,   \* lxc-to-incus: the error RunE returned
    execReq,     \* the request on instances/{name}/logs/exec-output
    execFiles,   \* the file names of the instance's exec-output directory
    execVolume,  \* the mounts and unmounts of the instance's root volume, in order
    execReverter, \* the hooks of the reverter of instanceExecOutputGet at its return
    execCleanup, \* the hooks of the Cleanup of the file response entry
    execResp,    \* the response to the request on exec-output
    execEvents,  \* the lifecycle events the exec-output handlers have sent
    dsTarget,    \* daemonStorageMove: the target, as its tokens
    dsLink,      \* daemonStorageMove: what the symlink at VarPath(storageType) points to
    dsFS,        \* daemonStorageMove: the entries of each directory
    dsMounted,   \* daemonStorageMove: the custom volumes that are mounted
    dsOld,       \* daemonStorageMove: the entries of the storage before the call
    dsPc,        \* daemonStorageMove: "start" before the call, "done" after it
    dsResult     \* daemonStorageMove: the error returned

\* the state of the daemon's handlers and of the other commands
logState == <<logReq, logFiles, logEvents, logResp>>
aclState == <<aclDB, aclReqs, aclOther, aclEvents>>
migrateState == <<migFlags, lxc, lxcPresent, incusNames, migPc, migI, migLog, migResult>>
execState == <<execReq, execFiles, execVolume, execReverter, execCleanup, execResp,
               execEvents>>
storageState == <<dsTarget, dsLink, dsFS, dsMounted, dsOld, dsPc, dsResult>>
handlers == <<logState, aclState, migrateState, execState, storageState>>

\* the state of the move command
invocation == <<c, args, extensions, clustered, expanded>>
moveState == <<pc, result, strategy, calls, ops, instances, copyArgs, copyRet, req,
               inst, cancelAt>>

\* what no step of the move command changes: its invocation, and the daemon's handlers
inputs == <<invocation, handlers>>
vars == <<c, args, extensions, clustered, expanded, pc, result, strategy, calls, ops,
          instances, copyArgs, copyRet, req, inst, cancelAt, logReq, logFiles,
          logEvents, logResp, aclDB, aclReqs, aclOther, aclEvents, migFlags, lxc,
          lxcPresent,
          incusNames, migPc, migI, migLog, migResult, execReq, execFiles, execVolume,
          execReverter, execCleanup, execResp, execEvents, dsTarget, dsLink, dsFS,
          dsMounted, dsOld, dsPc, dsResult>>

----
(* Bounds and the input universe *)

MaxArgs == 2

moveDefaultMode == "pull"

Remotes == {"a", "b"}

\* a resource token [<remote>:]<instance>, already split at the remote separator
Resource(r, n) == [remote |-> r, name |-> n]

SourceResource == Resource("a", "c1")

DestResources ==
    { Resource("a", "c1"), Resource("a", "c2"), Resource("b", "c1"),
      Resource("b", ""), Resource("a", ""), Resource("zz", "c1") }

ArgLists ==
    { a \in UNION { [1..n -> {SourceResource} \cup DestResources] : n \in 1..MaxArgs } :
        /\ a[1] = SourceResource
        /\ \A i \in 3..Len(a) : a[i] = SourceResource }

KV1 == <<"k1", "=", "v1">>
DevMtu == <<"eth0", ",", "mtu", "=", "9000">>

ConfigArgs == { <<>>, <<KV1>> }
DeviceArgs == { <<>>, <<DevMtu>> }
ProfileArgs == { <<>>, <<"p1">> }
Modes == { "", "pull", "push", "relay" }
Extensions == { "instance_move_config", "instance_pool_move", "instance_project_move" }

Flags ==
    [ flagNoProfiles : BOOLEAN,
      flagProfile : ProfileArgs,
      flagConfig : ConfigArgs,
      flagInstanceOnly : {FALSE},
      flagDevice : DeviceArgs,
      flagMode : Modes,
      flagStateless : {FALSE},
      flagStorage : {"", "pool2"},
      flagTarget : {"", "m1"},
      flagTargetProject : {"", "proj2"},
      flagAllowInconsistent : {FALSE} ]

----
(* Errors: a chain of wrapping messages around a cause *)

Nil == [chain |-> <<>>, cause |-> "nil"]
Err(cause) == [chain |-> <<>>, cause |-> cause]
\* fmt.Errorf("<msg>: %w", err)
Errorf(msg, err) == [chain |-> <<msg>> \o err.chain, cause |-> err.cause]

ConnErrs == { Nil, Err("Unreachable") }
CallErrs == { Nil, Err("RequestFailed") }

----
(* Operations and the servers *)

Terminal == { "Success", "Failure", "Cancelled" }

Coord(r, p, n) == [remote |-> r, project |-> p, name |-> n]
NoCoord == Coord("", "", "")

NewOp(kind, src, dst, mode) ==
    [kind |-> kind, status |-> "Pending", cancelReq |-> FALSE,
     src |-> src, dst |-> dst, mode |-> mode]

\* what op.Wait reports for an operation that reached a terminal state
OpErr(op) ==
    IF op.status = "Success" THEN Nil
    ELSE IF op.status = "Failure" THEN Err("OperationFailure")
    ELSE Err("OperationCancelled")

----
(* Pure helpers of the client *)

\* conf.ParseRemote: the remote must be one the configuration knows
ParseRemote(tok) ==
    IF tok.remote \in Remotes
    THEN [err |-> Nil, remote |-> tok.remote, name |-> tok.name]
    ELSE [err |-> Err("UnknownRemote"), remote |-> "", name |-> ""]

\* c.global.checkArgs(cmd, args, minArgs, maxArgs): exit when the count is out of range
checkArgs(a, minArgs, maxArgs) == Len(a) < minArgs \/ Len(a) > maxArgs

\* Run, "Quick checks"
CheckArgsExit ==
    IF c.flagTarget = "" /\ c.flagTargetProject = "" /\ c.flagStorage = ""
    THEN checkArgs(args, 2, 2)
    ELSE checkArgs(args, 1, 2)

\* mutant: the caller's mode is dropped and the default handed on
Mode_AlwaysDefault == moveDefaultMode

\* Run, "Parse the mode"
Mode == IF c.flagMode # "" THEN c.flagMode ELSE moveDefaultMode

sourceRemote == ParseRemote(args[1]).remote
sourceName == ParseRemote(args[1]).name
destRemote == IF Len(args) = 2 THEN ParseRemote(args[2]).remote ELSE sourceRemote
destName == IF Len(args) = 2 THEN ParseRemote(args[2]).name ELSE ""

ParseErr ==
    IF ParseRemote(args[1]).err # Nil THEN ParseRemote(args[1]).err
    ELSE IF Len(args) = 2 THEN ParseRemote(args[2]).err
    ELSE Nil

sourceResource == args[1]
destResource == IF Len(args) = 2 THEN args[2] ELSE sourceResource

stateful == ~c.flagStateless

\* mutant: the test of the target flag is inverted
RenamePath_TargetInverted ==
    /\ sourceRemote = destRemote
    /\ c.flagTarget # ""
    /\ c.flagStorage = ""
    /\ c.flagTargetProject = ""

\* the condition of the "simple rename" optimisation
RenamePath ==
    /\ sourceRemote = destRemote
    /\ c.flagTarget = ""
    /\ c.flagStorage = ""
    /\ c.flagTargetProject = ""

\* the overrides a local rename refuses
RenameOverride ==
    \/ c.flagConfig # <<>>
    \/ c.flagDevice # <<>>
    \/ c.flagProfile # <<>>
    \/ c.flagNoProfiles

HasExtension(ext) == ext \in extensions

\* whether isServerSide reaches "Connect to the server"
isServerSideConnects ==
    /\ sourceRemote = destRemote
    /\ c.flagMode = moveDefaultMode

\* mutant: the pool and project changes are not checked against the extensions
isServerSide_NoPoolCheck(connErr) ==
    IF sourceRemote # destRemote THEN FALSE
    ELSE IF c.flagMode # moveDefaultMode THEN FALSE
    ELSE IF connErr # Nil THEN FALSE
    ELSE IF /\ ~HasExtension("instance_move_config")
            /\ \/ Len(c.flagConfig) > 0
               \/ Len(c.flagDevice) > 0
               \/ Len(c.flagProfile) > 0
         THEN FALSE
    ELSE TRUE

\* the isServerSide closure; connErr is what GetInstanceServer returned
isServerSide(connErr) ==
    IF sourceRemote # destRemote THEN FALSE
    ELSE IF c.flagMode # moveDefaultMode THEN FALSE
    ELSE IF connErr # Nil THEN FALSE
    ELSE IF /\ ~HasExtension("instance_move_config")
            /\ \/ Len(c.flagConfig) > 0
               \/ Len(c.flagDevice) > 0
               \/ Len(c.flagProfile) > 0
         THEN FALSE
    ELSE IF c.flagStorage # "" /\ ~HasExtension("instance_pool_move") THEN FALSE
    ELSE IF c.flagTargetProject # "" /\ ~HasExtension("instance_project_move") THEN FALSE
    ELSE TRUE

\* a copy that is not told to tolerate inconsistent files
CopyArgs_NoAllowInconsistent ==
    [ flagTarget |-> c.flagTarget,
      flagTargetProject |-> c.flagTargetProject,
      flagConfig |-> c.flagConfig,
      flagDevice |-> c.flagDevice,
      flagProfile |-> c.flagProfile,
      flagNoProfiles |-> c.flagNoProfiles,
      flagAllowInconsistent |-> FALSE,
      sourceResource |-> sourceResource,
      destResource |-> destResource,
      keepVolatile |-> TRUE,
      ephemeral |-> -1,
      stateful |-> stateful,
      instanceOnly |-> c.flagInstanceOnly,
      mode |-> Mode,
      pool |-> c.flagStorage,
      move |-> TRUE ]

\* the cmdCopy fields and the arguments Run hands to copyInstance
CopyArgs ==
    [ flagTarget |-> c.flagTarget,
      flagTargetProject |-> c.flagTargetProject,
      flagConfig |-> c.flagConfig,
      flagDevice |-> c.flagDevice,
      flagProfile |-> c.flagProfile,
      flagNoProfiles |-> c.flagNoProfiles,
      flagAllowInconsistent |-> c.flagAllowInconsistent,
      sourceResource |-> sourceResource,
      destResource |-> destResource,
      keepVolatile |-> TRUE,
      ephemeral |-> -1,
      stateful |-> stateful,
      instanceOnly |-> c.flagInstanceOnly,
      mode |-> Mode,
      pool |-> c.flagStorage,
      move |-> TRUE ]

NoCopyArgs ==
    [ flagTarget |-> "", flagTargetProject |-> "", flagConfig |-> <<>>,
      flagDevice |-> <<>>, flagProfile |-> <<>>, flagNoProfiles |-> FALSE,
      flagAllowInconsistent |-> FALSE, sourceResource |-> Resource("", ""),
      destResource |-> Resource("", ""), keepVolatile |-> FALSE, ephemeral |-> 0,
      stateful |-> FALSE, instanceOnly |-> FALSE, mode |-> "", pool |-> "",
      move |-> FALSE ]

\* mutant: the error of copyInstance is not checked
AfterCopy_NoCheck(err) == [pc |-> "delete", result |-> Nil]

\* mutant: a failed copy ends Run without its error
AfterCopy_ErrorDropped(err) ==
    IF err # Nil THEN [pc |-> "done", result |-> Nil]
    ELSE [pc |-> "delete", result |-> Nil]

\* mutant: a cancellation by the caller is not taken for an error
AfterCopy_CancelIsSuccess(err) ==
    IF err # Nil /\ err.cause # "CanceledByUser" THEN [pc |-> "done", result |-> err]
    ELSE [pc |-> "delete", result |-> Nil]

\* Run after copyInstance returned err: stop with it, or go on to the delete
AfterCopy(err) ==
    IF err # Nil THEN [pc |-> "done", result |-> err]
    ELSE [pc |-> "delete", result |-> Nil]

DeleteFailedMsg == "Failed to delete original instance after copying it"

\* mutant: the error of the delete is returned as it came
AfterDelete_Unwrapped(err) == err

\* Run after del.Run returned err
AfterDelete(err) ==
    IF err # Nil THEN Errorf(DeleteFailedMsg, err) ELSE Nil

----
(* moveInstance: building the api.InstancePost *)

\* position of the first sep token of s, or 0
RECURSIVE IndexOf(_, _, _)
IndexOf(s, sep, i) ==
    IF i > Len(s) THEN 0
    ELSE IF s[i] = sep THEN i
    ELSE IndexOf(s, sep, i + 1)

\* strings.Cut(s, sep)
Cut(s, sep) ==
    LET i == IndexOf(s, sep, 1) IN
    IF i = 0 THEN [before |-> s, after |-> <<>>, found |-> FALSE]
    ELSE [before |-> SubSeq(s, 1, i - 1), after |-> SubSeq(s, i + 1, Len(s)), found |-> TRUE]

\* an assignment that leaves a key that is already set as it is
MapSet_KeepExisting(m, k, v) ==
    [x \in DOMAIN m \cup {k} |-> IF x \in DOMAIN m THEN m[x] ELSE v]

\* m[k] = v on a Go map
MapSet(m, k, v) == [x \in DOMAIN m \cup {k} |-> IF x = k THEN v ELSE m[x]]

\* a merge that adds the override's value to the value the device already has
MapsCopy_Appends(dst, src) ==
    [k \in DOMAIN dst \cup DOMAIN src |->
        IF k \in DOMAIN src /\ k \in DOMAIN dst THEN dst[k] \o src[k]
        ELSE IF k \in DOMAIN src THEN src[k] ELSE dst[k]]

\* a merge in which the keys the device already has keep their value
MapsCopy_DstWins(dst, src) ==
    [k \in DOMAIN dst \cup DOMAIN src |-> IF k \in DOMAIN dst THEN dst[k] ELSE src[k]]

\* maps.Copy(dst, src): every entry of src laid over dst
MapsCopy(dst, src) ==
    [k \in DOMAIN dst \cup DOMAIN src |-> IF k \in DOMAIN src THEN src[k] ELSE dst[k]]

\* mutant: only the first entry is checked for its "="
RECURSIVE OverrideConfig_FirstOnly(_, _, _)
OverrideConfig_FirstOnly(entries, i, m) ==
    IF i > Len(entries) THEN [err |-> Nil, config |-> m]
    ELSE LET cut == Cut(entries[i], "=") IN
         IF ~cut.found /\ i = 1 THEN [err |-> Err("BadKeyValuePair"), config |-> m]
         ELSE OverrideConfig_FirstOnly(entries, i + 1, MapSet(m, cut.before, cut.after))

\* the "Override config" loop over entries i..Len(entries), onto the map m
RECURSIVE OverrideConfig(_, _, _)
OverrideConfig(entries, i, m) ==
    IF i > Len(entries) THEN [err |-> Nil, config |-> m]
    ELSE LET cut == Cut(entries[i], "=") IN
         IF ~cut.found THEN [err |-> Err("BadKeyValuePair"), config |-> m]
         ELSE OverrideConfig(entries, i + 1, MapSet(m, cut.before, cut.after))

\* parseDeviceOverrides: each entry is <device>,<key>=<value>
RECURSIVE parseDeviceOverrides(_, _, _)
parseDeviceOverrides(entries, i, m) ==
    IF i > Len(entries) THEN [err |-> Nil, deviceMap |-> m]
    ELSE LET dev == Cut(entries[i], ",")
             kv == Cut(dev.after, "=")
         IN IF ~dev.found \/ IndexOf(entries[i], "=", 1) = 0
            THEN [err |-> Err("BadDeviceOverrideSyntax"), deviceMap |-> <<>>]
            ELSE parseDeviceOverrides(entries, i + 1,
                     MapSet(m, dev.before,
                            MapSet(IF dev.before \in DOMAIN m THEN m[dev.before] ELSE <<>>,
                                   kv.before, kv.after)))

\* expanded devices of an instance: a nic with an mtu and a root disk
ExpandedDevices ==
    (<<"eth0">> :> (<<"type">> :> <<"nic">> @@ <<"mtu">> :> <<"1500">>)) @@
    (<<"root">> :> (<<"type">> :> <<"disk">> @@ <<"pool">> :> <<"default">>))

\* expanded devices of an instance whose nic has no mtu key
ExpandedDevicesNoMtu ==
    (<<"eth0">> :> (<<"type">> :> <<"nic">>)) @@
    (<<"root">> :> (<<"type">> :> <<"disk">> @@ <<"pool">> :> <<"default">>))

\* the configuration the instance already has on the server
InstanceConfig == (<<"k2">> :> <<"old">>) @@ (<<"k9">> :> <<"kept">>)

\* source.GetInstance(sourceName)
GetInstance(name) ==
    [Name |-> name, ExpandedDevices |-> expanded, ExpandedConfig |-> InstanceConfig]
NoInstance == [Name |-> "", ExpandedDevices |-> <<>>, ExpandedConfig |-> <<>>]

\* the "Override devices" loop: whether some named device has no expanded
\* definition, so that maps.Copy writes into a nil map
OverrideDevicesPanics(i, deviceMap) ==
    \E d \in DOMAIN deviceMap : d \notin DOMAIN i.ExpandedDevices

\* the loop ranges over a Go map, in an order that is not specified: the sets of
\* devices it can have merged when it reaches a device the instance lacks
VisitedBeforePanic(i, deviceMap) ==
    SUBSET (DOMAIN deviceMap \cap DOMAIN i.ExpandedDevices)

\* the "Override devices" loop: req.Devices
OverrideDevices(i, deviceMap) ==
    [d \in DOMAIN deviceMap |-> MapsCopy(i.ExpandedDevices[d], deviceMap[d])]

\* an instance object that the loop leaves as it was fetched
InstAfterOverride_Untouched(i, deviceMap) == i

\* the instance object after the loop: fullDev is the map inst holds
InstAfterOverride(i, deviceMap) ==
    [i EXCEPT !.ExpandedDevices =
        [d \in DOMAIN i.ExpandedDevices |->
            IF d \in DOMAIN deviceMap
            THEN MapsCopy(i.ExpandedDevices[d], deviceMap[d])
            ELSE i.ExpandedDevices[d]]]

\* moveInstance: "The destination name is optional."
moveDestName == IF ParseRemote(destResource).name = "" THEN sourceName
                ELSE ParseRemote(destResource).name

\* profiles in which --no-profiles has no effect
OverrideProfiles_NoProfilesIgnored ==
    IF Len(c.flagProfile) > 0 THEN [isNil |-> FALSE, list |-> c.flagProfile]
    ELSE [isNil |-> TRUE, list |-> <<>>]

\* "Override profiles": nil (no list) or a list, possibly empty
OverrideProfiles ==
    IF Len(c.flagProfile) > 0 THEN [isNil |-> FALSE, list |-> c.flagProfile]
    ELSE IF c.flagNoProfiles THEN [isNil |-> FALSE, list |-> <<>>]
    ELSE [isNil |-> TRUE, list |-> <<>>]

\* a request that leaves the storage pool out
InstancePost_NoPool(config, devices) ==
    [ Name |-> moveDestName,
      Migration |-> TRUE,
      InstanceOnly |-> c.flagInstanceOnly,
      Pool |-> "",
      Project |-> c.flagTargetProject,
      Live |-> stateful,
      Profiles |-> OverrideProfiles,
      Config |-> config,
      Devices |-> devices,
      target |-> c.flagTarget ]

\* the api.InstancePost handed to MigrateInstance
InstancePost(config, devices) ==
    [ Name |-> moveDestName,
      Migration |-> TRUE,
      InstanceOnly |-> c.flagInstanceOnly,
      Pool |-> c.flagStorage,
      Project |-> c.flagTargetProject,
      Live |-> stateful,
      Profiles |-> OverrideProfiles,
      Config |-> config,
      Devices |-> devices,
      target |-> c.flagTarget ]

NoInstancePost ==
    [ Name |-> "", Migration |-> FALSE, InstanceOnly |-> FALSE, Pool |-> "",
      Project |-> "", Live |-> FALSE, Profiles |-> [isNil |-> TRUE, list |-> <<>>],
      Config |-> <<>>, Devices |-> <<>>, target |-> "" ]

----
(* The flow of control of Run *)

\* a call on the connection provider: who made it, on what, and what it returned
Call(by, op, remote, name, err) ==
    [by |-> by, op |-> op, remote |-> remote, name |-> name, err |-> err]

DefaultProject == "default"
SrcCoord == Coord(sourceRemote, DefaultProject, sourceName)

\* one step of the client: where it goes, what it returned, what it called and submitted
Step(pc2, res, strat, newCalls, newOps) ==
    /\ pc' = pc2
    /\ result' = res
    /\ strategy' = strat
    /\ calls' = calls \o newCalls
    /\ ops' = ops \o newOps

CurOp == ops[Len(ops)]

\* Run from its entry to the submission of the rename
RunStart ==
    /\ pc = "start"
    /\ UNCHANGED <<inputs, instances, copyArgs, copyRet, req, inst, cancelAt>>
    /\ \E connErr \in ConnErrs, callErr \in CallErrs :
        LET connect == Call("Run", "GetInstanceServer", sourceRemote, "", connErr)
            rename == Call("Run", "RenameInstance", sourceRemote, sourceName, callErr)
        IN
        IF CheckArgsExit THEN Step("done", Err("Usage"), "none", <<>>, <<>>)
        ELSE IF ParseErr # Nil THEN Step("done", ParseErr, "none", <<>>, <<>>)
        ELSE IF RenamePath THEN
            IF RenameOverride
            THEN Step("done", Err("CantOverrideInLocalRename"), "none", <<>>, <<>>)
            ELSE IF connErr # Nil
            THEN Step("done", connErr, "Rename", <<connect>>, <<>>)
            ELSE IF callErr # Nil
            THEN Step("done", callErr, "Rename", <<connect, rename>>, <<>>)
            ELSE Step("rename_wait", Nil, "Rename", <<connect, rename>>,
                      <<NewOp("rename", SrcCoord,
                              Coord(sourceRemote, DefaultProject, destName), "")>>)
        ELSE Step("select", Nil, "none", <<>>, <<>>)

\* a rename that returns without waiting for its operation
RenameWait_NoWait ==
    /\ pc = "rename_wait"
    /\ Step("done", IF CurOp.status \in Terminal THEN OpErr(CurOp) ELSE Nil,
            strategy, <<>>, <<>>)
    /\ UNCHANGED <<inputs, instances, copyArgs, copyRet, req, inst, cancelAt>>

\* a wait that sends the rename once more when the first one failed
RenameWait_Retries ==
    /\ pc = "rename_wait"
    /\ CurOp.status \in Terminal
    /\ IF CurOp.status = "Failure" /\ Len(ops) = 1
       THEN Step("rename_wait", Nil, strategy,
                 <<Call("Run", "RenameInstance", sourceRemote, sourceName, Nil)>>,
                 <<NewOp("rename", SrcCoord,
                         Coord(sourceRemote, DefaultProject, destName), "")>>)
       ELSE Step("done", OpErr(CurOp), strategy, <<>>, <<>>)
    /\ UNCHANGED <<inputs, instances, copyArgs, copyRet, req, inst, cancelAt>>

\* return op.Wait() of the rename
RenameWait ==
    /\ pc = "rename_wait"
    /\ CurOp.status \in Terminal
    /\ Step("done", OpErr(CurOp), strategy, <<>>, <<>>)
    /\ UNCHANGED <<inputs, instances, copyArgs, copyRet, req, inst, cancelAt>>

\* Run from isServerSide to the call of moveInstance or of copyInstance
RunSelect ==
    /\ pc = "select"
    /\ UNCHANGED <<inputs, instances, copyRet, req, inst, cancelAt>>
    /\ \E connErr \in ConnErrs :
        LET probe == IF isServerSideConnects
                     THEN <<Call("Run", "GetInstanceServer", sourceRemote, "", connErr)>>
                     ELSE <<>>
        IN
        IF isServerSide(connErr)
        THEN /\ Step("move", Nil, "ServerSideMove", probe, <<>>)
             /\ UNCHANGED copyArgs
        ELSE /\ Step("copy", Nil, "ClientMediatedCopy", probe, <<>>)
             /\ copyArgs' = CopyArgs

----
(* moveInstance *)

MoveDstCoord ==
    Coord(sourceRemote,
          IF c.flagTargetProject # "" THEN c.flagTargetProject ELSE DefaultProject,
          moveDestName)

\* mutant: a target member is accepted on any server
TargetWithoutCluster_Never == FALSE

\* "--target can only be used with clusters"
TargetWithoutCluster == ~clustered /\ c.flagTarget # ""

\* moveInstance from its entry to source.MigrateInstance
MoveSubmit ==
    /\ pc = "move"
    /\ UNCHANGED <<inputs, instances, copyArgs, copyRet, cancelAt>>
    /\ \E connErr \in ConnErrs, getErr \in CallErrs, callErr \in CallErrs :
        LET connect == Call("moveInstance", "GetInstanceServer", sourceRemote, "", connErr)
            get == Call("moveInstance", "GetInstance", sourceRemote, sourceName, getErr)
            migrate == Call("moveInstance", "MigrateInstance", sourceRemote, sourceName,
                            callErr)
            cfg == OverrideConfig(c.flagConfig, 1, <<>>)
            dev == parseDeviceOverrides(c.flagDevice, 1, <<>>)
            fetched == GetInstance(sourceName)
            hasDev == Len(c.flagDevice) > 0
            devices == IF hasDev /\ dev.err = Nil /\ getErr = Nil
                          /\ ~OverrideDevicesPanics(fetched, dev.deviceMap)
                       THEN OverrideDevices(fetched, dev.deviceMap) ELSE <<>>
            post == InstancePost(cfg.config, devices)
            getCalls == IF hasDev THEN <<get>> ELSE <<>>
        IN
        IF sourceName = ""
        THEN Step("done", Err("NoSourceName"), strategy, <<>>, <<>>)
             /\ UNCHANGED <<req, inst>>
        ELSE IF connErr # Nil
        THEN Step("done", Errorf("Failed to connect to cluster member", connErr),
                  strategy, <<connect>>, <<>>)
             /\ UNCHANGED <<req, inst>>
        ELSE IF TargetWithoutCluster
        THEN Step("done", Err("TargetOnlyWithClusters"), strategy, <<connect>>, <<>>)
             /\ UNCHANGED <<req, inst>>
        ELSE IF cfg.err # Nil
        THEN Step("done", cfg.err, strategy, <<connect>>, <<>>)
             /\ UNCHANGED <<req, inst>>
        ELSE IF hasDev /\ dev.err # Nil
        THEN Step("done", dev.err, strategy, <<connect>>, <<>>)
             /\ UNCHANGED <<req, inst>>
        ELSE IF hasDev /\ getErr # Nil
        THEN Step("done", getErr, strategy, <<connect, get>>, <<>>)
             /\ UNCHANGED <<req, inst>>
        ELSE IF hasDev /\ OverrideDevicesPanics(fetched, dev.deviceMap)
        THEN Step("panic", Nil, strategy, <<connect, get>>, <<>>)
             /\ \E visited \in VisitedBeforePanic(fetched, dev.deviceMap) :
                    inst' = InstAfterOverride(fetched, [d \in visited |-> dev.deviceMap[d]])
             /\ UNCHANGED req
        ELSE /\ req' = post
             /\ inst' = IF hasDev THEN InstAfterOverride(fetched, dev.deviceMap) ELSE inst
             /\ IF callErr # Nil
                THEN Step("done", Errorf("Migration API failure", callErr), strategy,
                          <<connect>> \o getCalls \o <<migrate>>, <<>>)
                ELSE Step("move_watch", Nil, strategy,
                          <<connect>> \o getCalls \o <<migrate>>,
                          <<NewOp("migrate", SrcCoord, MoveDstCoord, "")>>)

\* moveInstance: op.AddHandler(progress.UpdateOp)
MoveWatch ==
    /\ pc = "move_watch"
    /\ UNCHANGED <<inputs, instances, copyArgs, copyRet, req, inst, cancelAt>>
    /\ \E addErr \in CallErrs :
        IF addErr # Nil THEN Step("done", addErr, strategy, <<>>, <<>>)
        ELSE Step("move_wait", Nil, strategy, <<>>, <<>>)

\* cli.CancelableWait(op, &progress): the wait ends when the operation is terminal,
\* or when the caller's interrupt is observed; then cancellation is requested first
CancelableWait(op, interrupt) ==
    IF interrupt
    THEN [ready |-> op.status \notin Terminal, err |-> Err("CanceledByUser")]
    ELSE [ready |-> op.status \in Terminal, err |-> OpErr(op)]

\* the operations after a wait on the last one that saw the interrupt or not
OpsAfterWait(interrupt) ==
    IF interrupt THEN [ops EXCEPT ![Len(ops)].cancelReq = TRUE] ELSE ops

\* a wait that returns the error of the operation as it came
MoveWait_Unwrapped ==
    /\ pc = "move_wait"
    /\ UNCHANGED <<inputs, instances, copyArgs, copyRet, req, inst, strategy, calls>>
    /\ \E interrupt \in BOOLEAN :
        LET w == CancelableWait(CurOp, interrupt) IN
        /\ w.ready
        /\ pc' = "done"
        /\ result' = w.err
        /\ ops' = OpsAfterWait(interrupt)
        /\ cancelAt' = IF interrupt THEN CurOp.status ELSE cancelAt

\* moveInstance: "Wait for the move to complete"
MoveWait ==
    /\ pc = "move_wait"
    /\ UNCHANGED <<inputs, instances, copyArgs, copyRet, req, inst, strategy, calls>>
    /\ \E interrupt \in BOOLEAN :
        LET w == CancelableWait(CurOp, interrupt) IN
        /\ w.ready
        /\ pc' = "done"
        /\ result' = IF w.err # Nil THEN Errorf("Migration operation failure", w.err)
                     ELSE Nil
        /\ ops' = OpsAfterWait(interrupt)
        /\ cancelAt' = IF interrupt THEN CurOp.status ELSE cancelAt

----
(* Client-mediated copy: copyInstance, then the delete of the source *)

\* where copyInstance creates the copy: an empty destination name reuses the source's
CopyDstCoord ==
    LET src == ParseRemote(copyArgs.sourceResource)
        dst == ParseRemote(copyArgs.destResource)
    IN Coord(dst.remote,
             IF copyArgs.flagTargetProject # "" THEN copyArgs.flagTargetProject
             ELSE DefaultProject,
             IF dst.name = "" THEN src.name ELSE dst.name)

\* copyInstance up to the submission of the copy operation; an error it returns
\* is handled by Run
CopySubmit ==
    /\ pc = "copy"
    /\ UNCHANGED <<inputs, instances, copyArgs, req, inst, cancelAt>>
    /\ \E srcErr \in ConnErrs, dstErr \in ConnErrs, callErr \in CallErrs :
        LET src == ParseRemote(copyArgs.sourceResource)
            dst == ParseRemote(copyArgs.destResource)
            connectSrc == Call("copyInstance", "GetInstanceServer", src.remote, "", srcErr)
            connectDst == Call("copyInstance", "GetInstanceServer", dst.remote, "", dstErr)
            copy == Call("copyInstance", "CopyInstance", dst.remote, CopyDstCoord.name,
                         callErr)
            err == IF srcErr # Nil THEN srcErr
                   ELSE IF dstErr # Nil THEN dstErr
                   ELSE callErr
            made == IF srcErr # Nil THEN <<connectSrc>>
                    ELSE IF dstErr # Nil THEN <<connectSrc, connectDst>>
                    ELSE <<connectSrc, connectDst, copy>>
        IN
        IF err # Nil
        THEN /\ copyRet' = err
             /\ Step(AfterCopy(err).pc, AfterCopy(err).result, strategy, made, <<>>)
        ELSE /\ copyRet' = copyRet
             /\ Step("copy_wait", Nil, strategy, made,
                     <<NewOp("copy", Coord(src.remote, DefaultProject, src.name),
                             CopyDstCoord, copyArgs.mode)>>)

\* copyInstance waiting for the copy operation, and Run's handling of what it returns
CopyWait ==
    /\ pc = "copy_wait"
    /\ UNCHANGED <<inputs, instances, copyArgs, req, inst, strategy, calls>>
    /\ \E interrupt \in BOOLEAN :
        LET w == CancelableWait(CurOp, interrupt) IN
        /\ w.ready
        /\ copyRet' = w.err
        /\ pc' = AfterCopy(w.err).pc
        /\ result' = AfterCopy(w.err).result
        /\ ops' = OpsAfterWait(interrupt)
        /\ cancelAt' = IF interrupt THEN CurOp.status ELSE cancelAt

\* del.Run(cmd, args[:1]) with flagForce and flagForceProtected, up to the
\* submission of the delete operation
DeleteSubmit ==
    /\ pc = "delete"
    /\ UNCHANGED <<inputs, instances, copyArgs, copyRet, req, inst, cancelAt>>
    /\ \E connErr \in ConnErrs, callErr \in CallErrs :
        LET target == ParseRemote(args[1])
            connect == Call("cmdDelete", "GetInstanceServer", target.remote, "", connErr)
            delete == Call("cmdDelete", "DeleteInstance", target.remote, target.name,
                           callErr)
        IN
        IF connErr # Nil
        THEN Step("done", AfterDelete(connErr), strategy, <<connect>>, <<>>)
        ELSE IF callErr # Nil
        THEN Step("done", AfterDelete(callErr), strategy, <<connect, delete>>, <<>>)
        ELSE Step("delete_wait", Nil, strategy, <<connect, delete>>,
                  <<NewOp("delete", Coord(target.remote, DefaultProject, target.name),
                          NoCoord, "")>>)

\* del.Run waiting for the delete operation, and Run's handling of what it returns
DeleteWait ==
    /\ pc = "delete_wait"
    /\ CurOp.status \in Terminal
    /\ Step("done", AfterDelete(OpErr(CurOp)), strategy, <<>>, <<>>)
    /\ UNCHANGED <<inputs, instances, copyArgs, copyRet, req, inst, cancelAt>>

----
(* The servers: every operation goes Pending -> Running -> terminal *)

\* whether the server can complete the operation: the instance must be there, and
\* coordinates name at most one instance
CanSucceed(op) ==
    /\ op.src \in instances
    /\ op.kind \in {"rename", "migrate"} => (op.dst.name # "" /\ (op.dst = op.src \/ op.dst \notin instances))
    /\ op.kind = "copy" => op.dst \notin instances

\* the instances after the operation has succeeded
Effect(op) ==
    IF op.kind \in {"rename", "migrate"} THEN (instances \ {op.src}) \cup {op.dst}
    ELSE IF op.kind = "copy" THEN instances \cup {op.dst}
    ELSE instances \ {op.src}

ServerFrame == UNCHANGED <<inputs, pc, result, strategy, calls, copyArgs, copyRet,
                           req, inst, cancelAt>>

OpStart(i) ==
    /\ ops[i].status = "Pending"
    /\ ops' = [ops EXCEPT ![i].status = "Running"]
    /\ UNCHANGED instances
    /\ ServerFrame

OpSucceed(i) ==
    /\ ops[i].status = "Running"
    /\ CanSucceed(ops[i])
    /\ ops' = [ops EXCEPT ![i].status = "Success"]
    /\ instances' = Effect(ops[i])
    /\ ServerFrame

OpFail(i) ==
    /\ ops[i].status = "Running"
    /\ ops' = [ops EXCEPT ![i].status = "Failure"]
    /\ UNCHANGED instances
    /\ ServerFrame

\* the server honours a requested cancellation
OpCancel(i) ==
    /\ ops[i].status = "Running"
    /\ ops[i].cancelReq
    /\ ops' = [ops EXCEPT ![i].status = "Cancelled"]
    /\ UNCHANGED instances
    /\ ServerFrame

----
(* The daemon: instanceLogDelete and validLogFileName *)

\* the log files an instance has by name
KnownLogs ==
    { <<"lxc", ".log">>, <<"qemu", ".log">>, <<"qemu.early", ".log">>,
      <<"qemu.qmp", ".log">> }

\* the file names of the requests: the known logs, migration and snapshot logs,
\* names without the .log suffix, names of other files, and paths
LogNames ==
    KnownLogs \cup
    { <<"migration_", "x", ".log">>, <<"snapshot_", "x", ".log">>,
      <<"migration_", "x">>, <<"snapshot_", "x", ".txt">>, <<"migration_">>,
      <<"x", ".log">>, <<"console", ".log">>, <<>>, <<"..">>,
      <<"..", "/", "lxc", ".log">>, <<"migration_", "/", "x", ".log">>,
      <<"/", "snapshot_", "x", ".log">>, <<"snapshot_", "x", ".log", "/">>,
      <<"migration_", "/", "..", "/", "..", "/", "x", ".log">> }

\* strings.HasPrefix and strings.HasSuffix, for a prefix or suffix of one token
HasPrefix(s, prefix) == Len(s) >= 1 /\ s[1] = prefix
HasSuffix(s, suffix) == Len(s) >= 1 /\ s[Len(s)] = suffix

\* s without its trailing separators
RECURSIVE TrimSeparators(_)
TrimSeparators(s) ==
    IF Len(s) >= 1 /\ s[Len(s)] = "/" THEN TrimSeparators(SubSeq(s, 1, Len(s) - 1))
    ELSE s

\* the position of the last separator of s, or 0
LastSeparator(s) ==
    LET at == { i \in 1..Len(s) : s[i] = "/" }
    IN IF at = {} THEN 0 ELSE CHOOSE i \in at : \A j \in at : j <= i

\* filepath.Base(path)
Base(path) ==
    IF path = <<>> THEN <<".">>
    ELSE LET trimmed == TrimSeparators(path)
             last == SubSeq(trimmed, LastSeparator(trimmed) + 1, Len(trimmed))
         IN IF last = <<>> THEN <<"/">> ELSE last

\* a check of the name without the test that it is a bare file name
validLogFileName_NoBaseCheck(fname) ==
    \/ fname \in KnownLogs
    \/ HasPrefix(fname, "migration_")
    \/ HasPrefix(fname, "snapshot_")

\* validLogFileName(fname)
validLogFileName(fname) ==
    IF Base(fname) # fname THEN FALSE
    ELSE \/ fname \in KnownLogs
         \/ HasPrefix(fname, "migration_")
         \/ HasPrefix(fname, "snapshot_")

\* instanceLogDelete: the check of lines 314-316 refuses the file
NotADeletableLog(file) ==
    \/ ~HasSuffix(file, ".log")
    \/ file = <<"lxc", ".log">>
    \/ file = <<"qemu", ".log">>

\* what stops instanceLogDelete before it reads the file name, "ok" if nothing
LogEarlyOutcomes ==
    { "ok", "nameUnescapeError", "snapshot", "notFound", "forwardError", "forwarded",
      "fileUnescapeError", "invalidName" }

\* the response of instanceLogDelete to what stopped it before the file name
LogEarlyResponse(early) ==
    IF early \in {"snapshot", "invalidName"} THEN "BadRequest"
    ELSE IF early = "notFound" THEN "NotFound"
    ELSE IF early = "forwarded" THEN "Forwarded"
    ELSE "InternalError"

LogRequests == [early : LogEarlyOutcomes, file : LogNames]

\* lifecycle.InstanceLogDeleted.Event(file, inst, ...)
LogDeletedEvent(file) == [action |-> "instance-log-deleted", file |-> file]

\* the whole handler
instanceLogDelete ==
    /\ logResp = "none"
    /\ UNCHANGED <<invocation, moveState, logReq, aclState, migrateState, execState,
                   storageState>>
    /\ IF logReq.early # "ok"
       THEN /\ logResp' = LogEarlyResponse(logReq.early)
            /\ UNCHANGED <<logFiles, logEvents>>
       ELSE IF ~validLogFileName(logReq.file)
       THEN /\ logResp' = "BadRequest"
            /\ UNCHANGED <<logFiles, logEvents>>
       ELSE IF NotADeletableLog(logReq.file)
       THEN /\ logResp' = "BadRequest"
            /\ UNCHANGED <<logFiles, logEvents>>
       ELSE IF logReq.file \notin logFiles
       THEN /\ logResp' = "NotFound"
            /\ UNCHANGED <<logFiles, logEvents>>
       ELSE /\ logResp' = "EmptySyncResponse"
            /\ logFiles' = logFiles \ {logReq.file}
            /\ logEvents' = Append(logEvents, LogDeletedEvent(logReq.file))

\* no request on the logs
LogsIdle ==
    /\ logReq = [early |-> "ok", file |-> <<>>]
    /\ logFiles = {}
    /\ logEvents = <<>>
    /\ logResp = "none"

----
(* The daemon: the handlers of network ACLs, networkACLPut (PUT and PATCH)   *)
(* with networkACLDelete, networkACLPost and networkACLsPost beside it       *)

ACLRequests == {1, 2}

\* the name in the URL of the requests, and the other name an ACL is given
ACLName == "acl1"
ACLOtherName == "acl2"

\* what the handler reads and replaces of a network ACL
ACLInfo(description, config) == [description |-> description, config |-> config]

\* a row of the database; aclDB maps the ids of the ACLs that exist to their rows
ACLRow(name, info) == [name |-> name, info |-> info]

\* acl.LoadByName: the ids of the ACLs of that name, none when it fails
ACLByName(db, name) == { id \in DOMAIN db : db[id].name = name }

\* the id of the ACL of that name, which exists
ACLIdOf(db, name) == CHOOSE id \in ACLByName(db, name) : TRUE

\* netACL.Etag(): a hash of the ACL's content, different for different content
Etag(info) == <<"etag", info.description, info.config>>

\* the ACL before the requests
ACLInitial == { ACLInfo("d0", ("k1" :> "a")), ACLInfo("d0", <<>>) }

\* an ETag of an ACL that is not in the database
StaleEtag == Etag(ACLInfo("old", ("k1" :> "z")))

\* the If-Match header of a request: absent, or an ETag
NoIfMatch == [present |-> FALSE, etag |-> <<>>]
IfMatch(etag) == [present |-> TRUE, etag |-> etag]

\* the body of a request: malformed JSON, or a description with a config map or
\* with none
ACLBody(malformed, configNil, config, description) ==
    [malformed |-> malformed, configNil |-> configNil, config |-> config,
     description |-> description]

\* the description a request gives the ACL: each request its own
ACLDescription(r) == IF r = 1 THEN "d1" ELSE "d2"

ACLConfigs == { <<>>, ("k1" :> "b"), ("k2" :> "b") }

ACLBodies(r) ==
    { ACLBody(TRUE, TRUE, <<>>, "") , ACLBody(FALSE, TRUE, <<>>, ACLDescription(r)) }
    \cup { ACLBody(FALSE, FALSE, cfg, ACLDescription(r)) : cfg \in ACLConfigs }

\* what stops a handler before it loads the ACL, "ok" if nothing
ACLEarlyOutcomes == { "ok", "projectError", "unescapeError" }

\* a request, at its start
ACLRequest(early, method, ifMatch, body) ==
    [early |-> early, method |-> method, ifMatch |-> ifMatch, body |-> body,
     pc |-> "start", resp |-> "none", id |-> 0, put |-> ACLInfo("", <<>>),
     updateCalls |-> 0]

\* the requests on an ACL that is info in the database
ACLRequestsOn(info, r) ==
    { ACLRequest(early, "PUT", NoIfMatch, ACLBody(FALSE, FALSE, <<>>, ACLDescription(r))) :
        early \in ACLEarlyOutcomes \ {"ok"} }
    \cup { ACLRequest("ok", method, ifMatch, body) :
             method \in {"PUT", "PATCH"},
             ifMatch \in { NoIfMatch, IfMatch(Etag(info)), IfMatch(StaleEtag) },
             body \in ACLBodies(r) }

\* the request of another handler: a DELETE or a rename of the ACL, or the
\* creation of an ACL of that name
ACLOther(kind, early, name) ==
    [kind |-> kind, early |-> early, name |-> name, pc |-> "start", resp |-> "none",
     id |-> 0]

\* no other request
ACLNoOther ==
    [kind |-> "none", early |-> "ok", name |-> "", pc |-> "done", resp |-> "none",
     id |-> 0]

ACLOthers ==
    { ACLNoOther }
    \cup { ACLOther("delete", early, "") : early \in {"ok", "projectError"} }
    \cup { ACLOther("rename", early, ACLOtherName) :
             early \in {"ok", "projectError", "decodeError"} }
    \cup { ACLOther("create", early, name) :
             early \in {"ok", "projectError", "decodeError"},
             name \in {ACLName, ACLOtherName} }

\* a check of the ETag that lets every request through
EtagCheck_Ignored(ifMatch, etag) == TRUE

\* localUtil.EtagCheck(r, etag): a request without If-Match passes, one with
\* If-Match passes when it carries the ETag
EtagCheck(ifMatch, etag) == ~ifMatch.present \/ ifMatch.etag = etag

\* the "patch" loop: the existing keys that the request lacks are added to it
ACLPatchConfig(existing, requested) ==
    [k \in DOMAIN existing \cup DOMAIN requested |->
        IF k \in DOMAIN requested THEN requested[k] ELSE existing[k]]

\* the "patch" loop assigns into req.Config although the body had no config map
ACLPatchPanics(existing, body) == body.configNil /\ DOMAIN existing # {}

\* lifecycle.NetworkACLUpdated.Event(netACL, requestor, nil)
ACLUpdatedEvent(r) == [action |-> "network-acl-updated", requestor |-> r]

\* the lifecycle event of another handler
ACLOtherEvent(action) == [action |-> action, requestor |-> 0]

\* the response to what stopped the handler before it loaded the ACL
ACLEarlyResponse(early) == IF early = "decodeError" THEN "BadRequest" ELSE "InternalError"

\* netACL.Update on the row the handler loaded: the row, if the database still
\* holds it, gets the description and the config
ACLUpdate(db, id, put) == IF id \in DOMAIN db THEN [db EXCEPT ![id].info = put] ELSE db

ACLFrame ==
    UNCHANGED <<invocation, moveState, logState, migrateState, execState, storageState>>

\* request r ends with the response resp
ACLRespond(r, resp) ==
    aclReqs' = [aclReqs EXCEPT ![r].pc = "done", ![r].resp = resp]

\* the other request ends with the response resp
ACLOtherRespond(resp) ==
    aclOther' = [aclOther EXCEPT !.pc = "done", !.resp = resp]

\* networkACLPut from its entry to the call of netACL.Update: the load of the
\* ACL, the check of the ETag, the decoding of the body and the "patch" loop
networkACLPutLoad(r) ==
    /\ aclReqs[r].pc = "start"
    /\ ACLFrame
    /\ UNCHANGED <<aclDB, aclEvents, aclOther>>
    /\ LET q == aclReqs[r]
       IN
       IF q.early # "ok" THEN ACLRespond(r, ACLEarlyResponse(q.early))
       ELSE IF ACLByName(aclDB, ACLName) = {} THEN ACLRespond(r, "NotFound")
       ELSE
       LET id == ACLIdOf(aclDB, ACLName)
           netACL == aclDB[id].info
       IN
       IF ~EtagCheck(q.ifMatch, Etag(netACL)) THEN ACLRespond(r, "PreconditionFailed")
       ELSE IF q.body.malformed THEN ACLRespond(r, "BadRequest")
       ELSE IF q.method = "PATCH" /\ ACLPatchPanics(netACL.config, q.body)
       THEN aclReqs' = [aclReqs EXCEPT ![r].pc = "panic"]
       ELSE aclReqs' = [aclReqs EXCEPT
                ![r].pc = "update",
                ![r].id = id,
                ![r].put = ACLInfo(q.body.description,
                                   IF q.method = "PATCH"
                                   THEN ACLPatchConfig(netACL.config, q.body.config)
                                   ELSE q.body.config)]

\* networkACLPut: the call of netACL.Update
networkACLPutUpdate(r) ==
    /\ aclReqs[r].pc = "update"
    /\ ACLFrame
    /\ UNCHANGED <<aclEvents, aclOther>>
    /\ \E updateFails \in BOOLEAN :
        IF updateFails
        THEN /\ aclReqs' = [aclReqs EXCEPT ![r].pc = "done", ![r].resp = "InternalError",
                                           ![r].updateCalls = @ + 1]
             /\ UNCHANGED aclDB
        ELSE /\ aclReqs' = [aclReqs EXCEPT ![r].pc = "notify", ![r].updateCalls = @ + 1]
             /\ aclDB' = ACLUpdate(aclDB, aclReqs[r].id, aclReqs[r].put)

\* networkACLPut after netACL.Update: the lifecycle event and the response
networkACLPutNotify(r) ==
    /\ aclReqs[r].pc = "notify"
    /\ ACLFrame
    /\ UNCHANGED <<aclDB, aclOther>>
    /\ ACLRespond(r, "EmptySyncResponse")
    /\ aclEvents' = Append(aclEvents, ACLUpdatedEvent(r))

\* networkACLDelete and networkACLPost from their entry to the load of the ACL
\* the URL names
ACLOtherLoad ==
    /\ aclOther.pc = "start"
    /\ ACLFrame
    /\ UNCHANGED <<aclDB, aclReqs, aclEvents>>
    /\ IF aclOther.early # "ok" THEN ACLOtherRespond(ACLEarlyResponse(aclOther.early))
       ELSE IF ACLByName(aclDB, ACLName) = {} THEN ACLOtherRespond("NotFound")
       ELSE aclOther' = [aclOther EXCEPT !.pc = "loaded", !.id = ACLIdOf(aclDB, ACLName)]

\* a call on the database by the other request: it fails, or changes the
\* database to db
ACLOtherApply(mayPass, db) ==
    /\ aclOther.pc = "loaded"
    /\ ACLFrame
    /\ UNCHANGED <<aclReqs, aclEvents>>
    /\ \E fails \in (IF mayPass THEN BOOLEAN ELSE {TRUE}) :
        IF fails
        THEN /\ ACLOtherRespond("InternalError")
             /\ UNCHANGED aclDB
        ELSE /\ aclOther' = [aclOther EXCEPT !.pc = "notify"]
             /\ aclDB' = db

\* the lifecycle event of the other request, and its response
ACLOtherNotify(action, resp) ==
    /\ aclOther.pc = "notify"
    /\ ACLFrame
    /\ UNCHANGED <<aclDB, aclReqs>>
    /\ ACLOtherRespond(resp)
    /\ aclEvents' = Append(aclEvents, ACLOtherEvent(action))

\* networkACLDelete: the load of the ACL
networkACLDeleteLoad == aclOther.kind = "delete" /\ ACLOtherLoad

\* networkACLDelete: netACL.Delete removes the row the handler loaded
networkACLDeleteApply ==
    /\ aclOther.kind = "delete"
    /\ ACLOtherApply(TRUE, [id \in DOMAIN aclDB \ {aclOther.id} |-> aclDB[id]])

\* networkACLDelete after netACL.Delete
networkACLDeleteNotify ==
    aclOther.kind = "delete" /\ ACLOtherNotify("network-acl-deleted", "EmptySyncResponse")

\* networkACLPost: the decoding of the body and the load of the ACL
networkACLPostLoad == aclOther.kind = "rename" /\ ACLOtherLoad

\* networkACLPost: netACL.Rename gives the row the handler loaded the new name,
\* which no ACL may carry
networkACLPostRename ==
    /\ aclOther.kind = "rename"
    /\ ACLOtherApply(ACLByName(aclDB, aclOther.name) = {} /\ aclOther.id \in DOMAIN aclDB,
                     [aclDB EXCEPT ![aclOther.id].name = aclOther.name])

\* networkACLPost after netACL.Rename
networkACLPostNotify ==
    aclOther.kind = "rename" /\ ACLOtherNotify("network-acl-renamed", "SyncResponseLocation")

\* networkACLsPost from its entry to the call of acl.Create: an ACL of the
\* name must not exist
networkACLsPostCheck ==
    /\ aclOther.kind = "create"
    /\ aclOther.pc = "start"
    /\ ACLFrame
    /\ UNCHANGED <<aclDB, aclReqs, aclEvents>>
    /\ IF aclOther.early # "ok" THEN ACLOtherRespond(ACLEarlyResponse(aclOther.early))
       ELSE IF ACLByName(aclDB, aclOther.name) # {} THEN ACLOtherRespond("BadRequest")
       ELSE aclOther' = [aclOther EXCEPT !.pc = "loaded"]

\* networkACLsPost: acl.Create adds a row of the name, which no ACL may carry
networkACLsPostCreate ==
    /\ aclOther.kind = "create"
    /\ LET id == Cardinality(DOMAIN aclDB) + 1
       IN ACLOtherApply(ACLByName(aclDB, aclOther.name) = {} /\ id \notin DOMAIN aclDB,
                        [i \in DOMAIN aclDB \cup {id} |->
                            IF i = id THEN ACLRow(aclOther.name, ACLInfo("dc", <<>>))
                            ELSE aclDB[i]])

\* networkACLsPost after acl.Create: the ACL is loaded again for the event
networkACLsPostNotify ==
    /\ aclOther.kind = "create"
    /\ aclOther.pc = "notify"
    /\ IF ACLByName(aclDB, aclOther.name) = {}
       THEN /\ ACLFrame
            /\ UNCHANGED <<aclDB, aclReqs, aclEvents>>
            /\ ACLOtherRespond("BadRequest")
       ELSE ACLOtherNotify("network-acl-created", "SyncResponseLocation")

\* no request on the ACL
ACLIdle ==
    /\ aclDB = <<ACLRow(ACLName, ACLInfo("d0", <<>>))>>
    /\ aclReqs = <<>>
    /\ aclOther = ACLNoOther
    /\ aclEvents = <<>>

----
(* lxc-to-incus: cmdMigrate.RunE and convertContainer *)

\* an LXC container as convertContainer sees it: whether it runs, and what its
\* configuration file holds
LxcContainer(name, running, config) == [name |-> name, running |-> running, config |-> config]

\* the configuration of a container: one that converts, one that cannot be read,
\* one with an unsupported key, one that validateConfig or a conversion refuses
LxcConfigs == { "valid", "unreadable", "unsupportedKey", "invalid" }

\* the containers of the LXC path
LxcLists ==
    { <<LxcContainer("c1", r1, cfg), LxcContainer("c2", r2, "valid"),
        LxcContainer("c3", FALSE, "valid")>> :
        r1 \in BOOLEAN, r2 \in BOOLEAN, cfg \in LxcConfigs }

\* the flags of lxc-to-incus
MigrateFlags ==
    [ flagDryRun : BOOLEAN, flagDelete : BOOLEAN, flagAll : BOOLEAN,
      flagContainers : { <<>>, <<"c1">>, <<"c1", "c3">>, <<"c2", "c3">> } ]

\* slices.Contains
Contains(s, x) == \E i \in 1..Len(s) : s[i] = x

\* "You must either pass container names or --all"
MigrateUsageError ==
    \/ Len(migFlags.flagContainers) = 0 /\ ~migFlags.flagAll
    \/ Len(migFlags.flagContainers) > 0 /\ migFlags.flagAll

\* what convertContainer returned, whether d.CreateInstance returned an operation
\* and whether transferRootfs returned without error
Converted(err, created, transferred) ==
    [err |-> err, created |-> created, transferred |-> transferred]

\* convertContainer; namesErr, createErr, addErr and transferErr are what
\* GetInstanceNames, CreateInstance, AddHandler and transferRootfs return
convertContainer(container, names, dryRun, namesErr, createErr, addErr, transferErr) ==
    IF container.running THEN Converted(Err("OnlyStoppedContainers"), FALSE, FALSE)
    ELSE IF container.config = "unreadable"
    THEN Converted(Err("ParseConfig"), FALSE, FALSE)
    ELSE IF container.config = "unsupportedKey"
    THEN Converted(Err("UnsupportedConfigKey"), FALSE, FALSE)
    ELSE IF namesErr # Nil THEN Converted(namesErr, FALSE, FALSE)
    ELSE IF container.name \in names
    THEN Converted(Err("ContainerAlreadyExists"), FALSE, FALSE)
    ELSE IF container.config = "invalid"
    THEN Converted(Err("InvalidConfig"), FALSE, FALSE)
    ELSE IF dryRun THEN Converted(Nil, FALSE, FALSE)
    ELSE IF createErr # Nil THEN Converted(createErr, FALSE, FALSE)
    ELSE IF addErr # Nil THEN Converted(addErr, TRUE, FALSE)
    ELSE IF transferErr # Nil THEN Converted(transferErr, TRUE, FALSE)
    ELSE Converted(Nil, TRUE, TRUE)

\* mutant: the source is destroyed whatever the conversion returned
DestroysSource_IgnoresError(err) == migFlags.flagDelete /\ ~migFlags.flagDryRun

\* RunE calls container.Destroy() after a conversion that returned err
DestroysSource(err) == err = Nil /\ migFlags.flagDelete /\ ~migFlags.flagDryRun

\* what RunE did with a container: whether it was selected, the outcome of its
\* conversion, and the outcome of Destroy ("none" when it was not called)
Visited(name, selected, conv, destroy) ==
    [name |-> name, selected |-> selected, conv |-> conv, destroy |-> destroy]

NotConverted == Converted(Nil, FALSE, FALSE)

MigrateFrame ==
    UNCHANGED <<invocation, moveState, logState, aclState, execState, storageState>>

\* RunE up to the loop: the check of the flags and the connection to the daemon
MigrateStart ==
    /\ migPc = "start"
    /\ MigrateFrame
    /\ UNCHANGED <<migFlags, lxc, lxcPresent, incusNames, migI, migLog>>
    /\ \E connErr \in ConnErrs :
        IF MigrateUsageError
        THEN migPc' = "exit" /\ UNCHANGED migResult
        ELSE IF connErr # Nil
        THEN migPc' = "done" /\ migResult' = connErr
        ELSE migPc' = "loop" /\ UNCHANGED migResult

\* one iteration of the loop over the LXC containers
MigrateContainer ==
    /\ migPc = "loop"
    /\ migI <= Len(lxc)
    /\ MigrateFrame
    /\ UNCHANGED <<migFlags, lxc, migPc, migResult>>
    /\ migI' = migI + 1
    /\ \E namesErr \in CallErrs, createErr \in CallErrs, addErr \in CallErrs,
          transferErr \in CallErrs, destroyErr \in CallErrs, removed \in BOOLEAN :
        LET container == lxc[migI]
            conv == convertContainer(container, incusNames, migFlags.flagDryRun,
                                     namesErr, createErr, addErr, transferErr)
        IN
        IF ~migFlags.flagAll /\ ~Contains(migFlags.flagContainers, container.name)
        THEN /\ migLog' = Append(migLog, Visited(container.name, FALSE, NotConverted, "none"))
             /\ UNCHANGED <<lxcPresent, incusNames>>
        ELSE /\ incusNames' = IF conv.created THEN incusNames \cup {container.name}
                              ELSE incusNames
             /\ IF DestroysSource(conv.err)
                THEN /\ migLog' = Append(migLog,
                            Visited(container.name, TRUE, conv,
                                    IF destroyErr = Nil THEN "destroyed" ELSE "failed"))
                     /\ lxcPresent' = IF destroyErr = Nil \/ removed
                                      THEN lxcPresent \ {container.name}
                                      ELSE lxcPresent
                ELSE /\ migLog' = Append(migLog, Visited(container.name, TRUE, conv, "none"))
                     /\ UNCHANGED lxcPresent

\* the end of the loop: RunE returns nil
MigrateReturn ==
    /\ migPc = "loop"
    /\ migI > Len(lxc)
    /\ MigrateFrame
    /\ UNCHANGED <<migFlags, lxc, lxcPresent, incusNames, migI, migLog>>
    /\ migPc' = "done"
    /\ migResult' = Nil

LxcNames(l) == { l[i].name : i \in 1..Len(l) }

MigrateIdle ==
    /\ migFlags = [flagDryRun |-> FALSE, flagDelete |-> FALSE, flagAll |-> TRUE,
                   flagContainers |-> <<>>]
    /\ lxc = <<>>
    /\ lxcPresent = {}
    /\ incusNames = {}
    /\ migPc = "start"
    /\ migI = 1
    /\ migLog = <<>>
    /\ migResult = Nil

----
(* The daemon: instanceExecOutputsGet, instanceExecOutputGet and            *)
(* instanceExecOutputDelete, with the mounts of the instance's root volume  *)

\* the names of the entries of the exec-output directory
ExecEntries ==
    { <<"exec_", "1", ".stdout">>, <<"exec_", "1", ".stderr">>, <<"exec_", "1">>,
      <<"x", ".stdout">> }

\* the file names of the requests: the entries, and a relative path
ExecNames == ExecEntries \cup { <<"exec_", "/", "..", "/", "x", ".stdout">> }

\* the elements of a path: its tokens between the separators
RECURSIVE PathElements(_, _)
PathElements(s, element) ==
    IF s = <<>> THEN <<element>>
    ELSE IF Head(s) = "/" THEN <<element>> \o PathElements(Tail(s), <<>>)
    ELSE PathElements(Tail(s), Append(element, Head(s)))

\* filepath.Clean of a relative path, element by element: empty elements and "."
\* are dropped, ".." takes the element before it away or stays when there is none
RECURSIVE CleanElements(_, _)
CleanElements(elements, cleaned) ==
    IF elements = <<>> THEN cleaned
    ELSE LET e == Head(elements) IN
         IF e = <<>> \/ e = <<".">> THEN CleanElements(Tail(elements), cleaned)
         ELSE IF e = <<"..">> /\ cleaned # <<>> /\ cleaned[Len(cleaned)] # <<"..">>
         THEN CleanElements(Tail(elements), SubSeq(cleaned, 1, Len(cleaned) - 1))
         ELSE CleanElements(Tail(elements), Append(cleaned, e))

\* filepath.Join(inst.ExecOutputPath(), file), relative to the directory
ExecOutputFile(file) == CleanElements(PathElements(file, <<>>), <<>>)

\* the path names an entry that the directory holds
ExecOutputExists(file, files) ==
    Len(ExecOutputFile(file)) = 1 /\ ExecOutputFile(file)[1] \in files

\* validExecOutputFileName(fName)
validExecOutputFileName(fName) ==
    /\ HasSuffix(fName, ".stdout") \/ HasSuffix(fName, ".stderr")
    /\ HasPrefix(fName, "exec_")

\* what stops a handler before it loads the storage pool, "ok" if nothing
ExecEarlyOutcomes ==
    { "ok", "nameUnescapeError", "snapshot", "notFound", "forwardError", "forwarded",
      "fileUnescapeError", "invalidName" }

\* the response of a handler to what stopped it
ExecEarlyResponse(early) ==
    IF early \in {"snapshot", "invalidName"} THEN "BadRequest"
    ELSE IF early = "notFound" THEN "NotFound"
    ELSE IF early = "forwarded" THEN "Forwarded"
    ELSE "InternalError"

\* a request, with what storage.LoadByInstance, pool.MountInstance and os.ReadDir
\* return for it, and what os.Remove returns for a file that exists
ExecRequests ==
    { q \in [ handler : {"list", "get", "delete"}, early : ExecEarlyOutcomes,
              file : ExecNames, poolErr : CallErrs, mountErr : CallErrs,
              readErr : CallErrs, removeErr : CallErrs ] :
        /\ q.handler = "list" => q.early # "fileUnescapeError" /\ q.file = <<"exec_", "1">>
        /\ q.handler # "list" => q.readErr = Nil
        /\ q.handler # "delete" => q.removeErr = Nil }

\* pool.MountInstance and pool.UnmountInstance on the root volume, and who called
MountEvent == [op |-> "mount", by |-> "handler"]
UnmountEvent(by) == [op |-> "unmount", by |-> by]

\* the hook that unmounts the root volume
UnmountHook == "UnmountInstance"

\* revert.Reverter: Add, Clone, Success, and Fail run by the caller `by`
ReverterAdd(r, hook) == Append(r, hook)
ReverterClone(r) == r
ReverterSuccess(r) == <<>>
ReverterFail(r, by) == [i \in 1..Len(r) |-> UnmountEvent(by)]

\* mutant: the handler's reverter keeps its hook
ExecGetHooks_NoSuccess ==
    [reverter |-> <<UnmountHook>>, cleanup |-> <<UnmountHook>>]

\* instanceExecOutputGet after the mount: reverter.Add, reverter.Clone,
\* reverter.Success
ExecGetHooks ==
    LET added == ReverterAdd(<<>>, UnmountHook)
        cloned == ReverterClone(added)
    IN [reverter |-> ReverterSuccess(added), cleanup |-> cloned]

\* the response of a handler, and the files a list response names
ExecResponse(kind, files) == [kind |-> kind, result |-> files]
NoExecResponse == ExecResponse("none", {})

\* lifecycle events of the exec-output files
ExecEvent(action, file) == [action |-> action, file |-> file]

ExecFrame ==
    UNCHANGED <<invocation, moveState, logState, aclState, migrateState, storageState>>

\* what every handler does up to the mount: the response that stops it, or "mount"
ExecBeforeMount(q, checksFile) ==
    IF q.early # "ok" THEN ExecEarlyResponse(q.early)
    ELSE IF checksFile /\ ~validExecOutputFileName(q.file) THEN "BadRequest"
    ELSE IF q.poolErr # Nil THEN "InternalError"
    ELSE IF q.mountErr # Nil THEN "InternalError"
    ELSE "mount"

\* the whole list handler; the deferred unmount runs at its return
instanceExecOutputsGet ==
    /\ execReq.handler = "list"
    /\ execResp = NoExecResponse
    /\ ExecFrame
    /\ UNCHANGED <<execReq, execFiles, execReverter, execCleanup, execEvents>>
    /\ LET before == ExecBeforeMount(execReq, FALSE) IN
       IF before # "mount"
       THEN /\ execResp' = ExecResponse(before, {})
            /\ UNCHANGED execVolume
       ELSE /\ execVolume' = execVolume \o <<MountEvent, UnmountEvent("defer")>>
            /\ execResp' = IF execReq.readErr # Nil THEN ExecResponse("InternalError", {})
                           ELSE ExecResponse("SyncResponse",
                                    { f \in execFiles : validExecOutputFileName(f) })

\* the whole get handler; reverter.Fail is deferred, the cleanup goes with the
\* file response
instanceExecOutputGet ==
    /\ execReq.handler = "get"
    /\ execResp = NoExecResponse
    /\ ExecFrame
    /\ UNCHANGED <<execReq, execFiles>>
    /\ LET before == ExecBeforeMount(execReq, TRUE) IN
       IF before # "mount"
       THEN /\ execResp' = ExecResponse(before, {})
            /\ execReverter' = <<>>
            /\ execVolume' = execVolume \o ReverterFail(<<>>, "reverter")
            /\ UNCHANGED <<execCleanup, execEvents>>
       ELSE /\ execReverter' = ExecGetHooks.reverter
            /\ execCleanup' = ExecGetHooks.cleanup
            /\ execEvents' = Append(execEvents,
                                    ExecEvent("instance-log-retrieved", execReq.file))
            /\ execResp' = ExecResponse("FileResponse", {execReq.file})
            /\ execVolume' = execVolume \o <<MountEvent>>
                                \o ReverterFail(ExecGetHooks.reverter, "reverter")

\* the daemon renders the file response and invokes the Cleanup of its entry
FileResponseRender ==
    /\ execResp.kind = "FileResponse"
    /\ ExecFrame
    /\ UNCHANGED <<execReq, execFiles, execReverter, execCleanup, execEvents>>
    /\ execVolume' = execVolume \o ReverterFail(execCleanup, "cleanup")
    /\ execResp' = IF ExecOutputExists(execReq.file, execFiles)
                   THEN ExecResponse("FileSent", {ExecOutputFile(execReq.file)[1]})
                   ELSE ExecResponse("NotFound", {})

\* the whole delete handler; the deferred unmount runs at its return
instanceExecOutputDelete ==
    /\ execReq.handler = "delete"
    /\ execResp = NoExecResponse
    /\ ExecFrame
    /\ UNCHANGED <<execReq, execReverter, execCleanup>>
    /\ LET before == ExecBeforeMount(execReq, TRUE) IN
       IF before # "mount"
       THEN /\ execResp' = ExecResponse(before, {})
            /\ UNCHANGED <<execVolume, execFiles, execEvents>>
       ELSE /\ execVolume' = execVolume \o <<MountEvent, UnmountEvent("defer")>>
            /\ IF ~ExecOutputExists(execReq.file, execFiles)
               THEN /\ execResp' = ExecResponse("NotFound", {})
                    /\ UNCHANGED <<execFiles, execEvents>>
               ELSE IF execReq.removeErr # Nil
               THEN /\ execResp' = ExecResponse("InternalError", {})
                    /\ UNCHANGED <<execFiles, execEvents>>
               ELSE /\ execResp' = ExecResponse("EmptySyncResponse", {})
                    /\ execFiles' = execFiles \ {ExecOutputFile(execReq.file)[1]}
                    /\ execEvents' = Append(execEvents,
                                            ExecEvent("instance-log-deleted", execReq.file))

\* no request on the exec-output files
ExecIdle ==
    /\ execReq = [handler |-> "list", early |-> "ok", file |-> <<"exec_", "1">>,
                  poolErr |-> Nil, mountErr |-> Nil, readErr |-> Nil, removeErr |-> Nil]
    /\ execFiles = {}
    /\ execVolume = <<>>
    /\ execReverter = <<>>
    /\ execCleanup = <<>>
    /\ execResp = NoExecResponse
    /\ execEvents = <<>>

----
(* The daemon: daemonStorageMove and its moveContent *)

\* shared.VarPath(storageType), the same with ".temp", and the mount point of a
\* custom volume, each as the fields of the path
StorageVarPath == <<"var", "backups">>
StorageTempPath == <<"var", "backups.temp">>
StorageMountpoint(poolName, volumeName) == <<"storage-pools", poolName, "custom", volumeName>>

\* the custom volumes of the server
StorageVolumes == { <<"p1", "v1">>, <<"p1", "v2">> }

\* the directories that hold content
StoragePaths ==
    { StorageVarPath, StorageTempPath }
    \cup { StorageMountpoint(v[1], v[2]) : v \in StorageVolumes }

\* VarPath(storageType) is a directory, not a symlink; and it does not exist
NoLink == <<>>
MissingLink == <<"missing">>

\* the names of the entries of the storage
StorageEntries == { "e1", "e2" }

\* the targets: none, a volume, and strings that are not <pool>/<volume>
StorageTargets ==
    { <<>>, <<"p1", "/", "v1">>, <<"p1", "/", "v2">>, <<"p1">>,
      <<"p1", "/", "v1", "/", "x">> }

\* strings.Split(s, "/") of a non-empty string: the fields between the separators
RECURSIVE SplitFields(_, _)
SplitFields(s, field) ==
    IF s = <<>> THEN <<field>>
    ELSE IF Head(s) = "/" THEN <<field>> \o SplitFields(Tail(s), "")
    ELSE SplitFields(Tail(s), Head(s))

\* the calls of daemonStorageMove that can fail
StorageFailPoints ==
    { "none", "Remove", "MkdirAll", "LocalCopy", "ReadDir", "RemoveAll", "GetPoolByName",
      "GetSourcePool", "UnmountCustomVolume", "MountCustomVolume", "Chmod", "Chown", "Symlink", "Rename",
      "Cleanup" }

\* the state of the file system and of the mounts, with the error returned
StorageOutcome(link, fs, mounted, err) ==
    [link |-> link, fs |-> fs, mounted |-> mounted, err |-> err]

\* moveContent(source, target): rsync.LocalCopy, then the removal of every entry
\* of the source; a copy or a removal that fails has handled the entries of partial
moveContent(fs, source, target, failAt, partial) ==
    LET copied == [fs EXCEPT ![target] = fs[target] \cup fs[source]] IN
    IF failAt = "LocalCopy"
    THEN [fs |-> [fs EXCEPT ![target] = fs[target] \cup (fs[source] \cap partial)],
          err |-> Err("LocalCopy")]
    ELSE IF failAt = "ReadDir" THEN [fs |-> copied, err |-> Err("ReadDir")]
    ELSE IF failAt = "RemoveAll" /\ copied[source] # {}
    THEN [fs |-> [copied EXCEPT ![source] = copied[source] \ partial],
          err |-> Err("RemoveAll")]
    ELSE [fs |-> [copied EXCEPT ![source] = {}], err |-> Nil]

\* the end of the two branches that leave a volume: the move of the content, then
\* the unmount of the old volume
StorageLeaveVolume(link, fs, mounted, sourcePath, destPath, failAt, partial) ==
    LET moved == moveContent(fs, sourcePath, destPath, failAt, partial)
        sourcePool == sourcePath[Len(sourcePath) - 2]
        sourceVolume == sourcePath[Len(sourcePath)]
    IN
    IF moved.err # Nil
    THEN StorageOutcome(link, moved.fs, mounted,
                        Errorf("Failed to move data over to directory", moved.err))
    ELSE IF failAt = "GetSourcePool"
    THEN StorageOutcome(link, moved.fs, mounted, Err("GetPoolByName"))
    ELSE IF failAt = "UnmountCustomVolume"
    THEN StorageOutcome(link, moved.fs, mounted,
                        Errorf("Failed to umount storage volume", Err("UnmountCustomVolume")))
    ELSE StorageOutcome(link, moved.fs, mounted \ {<<sourcePool, sourceVolume>>}, Nil)

\* daemonStorageMove(s, storageType, target) on the file system fs, where
\* VarPath(storageType) is a symlink to link or a directory
daemonStorageMoveOn(link, fs, mounted, target, failAt, partial) ==
    LET sourcePath == IF link = NoLink THEN StorageVarPath ELSE link
        fields == SplitFields(target, "")
        poolName == fields[1]
        volumeName == fields[2]
        mountpoint == StorageMountpoint(poolName, volumeName)
        nowMounted == mounted \cup {<<poolName, volumeName>>}
        renamed == [fs EXCEPT ![StorageTempPath] = fs[StorageVarPath],
                              ![StorageVarPath] = {}]
        moved == moveContent(renamed, StorageTempPath, mountpoint, failAt, partial)
    IN
    IF target = <<>>
    THEN IF sourcePath = StorageVarPath THEN StorageOutcome(link, fs, mounted, Nil)
         ELSE IF failAt = "Remove"
         THEN StorageOutcome(link, fs, mounted,
                             Errorf("Failed to delete storage symlink", Err("Remove")))
         ELSE IF failAt = "MkdirAll"
         THEN StorageOutcome(MissingLink, fs, mounted,
                             Errorf("Failed to create directory", Err("MkdirAll")))
         ELSE StorageLeaveVolume(NoLink, fs, mounted, sourcePath, StorageVarPath,
                                 failAt, partial)
    ELSE IF Len(fields) # 2
    THEN StorageOutcome(link, fs, mounted, Err("InvalidSyntax"))
    ELSE IF failAt = "GetPoolByName"
    THEN StorageOutcome(link, fs, mounted, Err("GetPoolByName"))
    ELSE IF failAt = "MountCustomVolume"
    THEN StorageOutcome(link, fs, mounted,
                        Errorf("Failed to mount storage volume", Err("MountCustomVolume")))
    ELSE IF failAt = "Chmod"
    THEN StorageOutcome(link, fs, nowMounted,
                        Errorf("Failed to set permissions", Err("Chmod")))
    ELSE IF failAt = "Chown"
    THEN StorageOutcome(link, fs, nowMounted,
                        Errorf("Failed to set ownership", Err("Chown")))
    ELSE IF sourcePath # StorageVarPath
    THEN IF failAt = "Remove"
         THEN StorageOutcome(link, fs, nowMounted,
                             Errorf("Failed to remove the new symlink", Err("Remove")))
         ELSE IF failAt = "Symlink"
         THEN StorageOutcome(MissingLink, fs, nowMounted,
                             Errorf("Failed to create the new symlink", Err("Symlink")))
         ELSE StorageLeaveVolume(mountpoint, fs, nowMounted, sourcePath, mountpoint,
                                 failAt, partial)
    ELSE IF failAt = "Rename"
    THEN StorageOutcome(link, fs, nowMounted,
                        Errorf("Failed to rename existing storage", Err("Rename")))
    ELSE IF failAt = "Symlink"
    THEN StorageOutcome(MissingLink, renamed, nowMounted,
                        Errorf("Failed to create the new symlink", Err("Symlink")))
    ELSE IF moved.err # Nil
    THEN StorageOutcome(mountpoint, moved.fs, nowMounted,
                        Errorf("Failed to move data over to directory", moved.err))
    ELSE IF failAt = "Cleanup"
    THEN StorageOutcome(mountpoint, moved.fs, nowMounted,
                        Errorf("Failed to cleanup old directory", Err("RemoveAll")))
    ELSE StorageOutcome(mountpoint, moved.fs, nowMounted, Nil)

StorageFrame ==
    UNCHANGED <<invocation, moveState, logState, aclState, migrateState, execState>>

\* the whole function
daemonStorageMove ==
    /\ dsPc = "start"
    /\ StorageFrame
    /\ UNCHANGED <<dsTarget, dsOld>>
    /\ \E failAt \in StorageFailPoints, partial \in SUBSET StorageEntries :
        LET out == daemonStorageMoveOn(dsLink, dsFS, dsMounted, dsTarget, failAt, partial)
        IN /\ dsLink' = out.link
           /\ dsFS' = out.fs
           /\ dsMounted' = out.mounted
           /\ dsResult' = out.err
           /\ dsPc' = "done"

\* the volume a symlink to path leads to
StorageVolumeOf(path) == <<path[Len(path) - 2], path[Len(path)]>>

\* the entries found at VarPath(storageType)
StorageContent(link, fs) ==
    IF link = NoLink THEN fs[StorageVarPath]
    ELSE IF link = MissingLink THEN {}
    ELSE fs[link]

\* no call of daemonStorageMove
StorageIdle ==
    /\ dsTarget = <<>>
    /\ dsLink = NoLink
    /\ dsFS = [p \in StoragePaths |-> {}]
    /\ dsMounted = {}
    /\ dsOld = {}
    /\ dsPc = "start"
    /\ dsResult = Nil

----
\* nothing is asked of the handlers and of the other commands
HandlersIdle == LogsIdle /\ ACLIdle /\ MigrateIdle /\ ExecIdle /\ StorageIdle

----
(* Specification *)

Init ==
    /\ c \in Flags
    /\ args \in ArgLists
    /\ extensions \in SUBSET Extensions
    /\ clustered \in BOOLEAN
    /\ expanded = ExpandedDevices
    /\ pc = "start"
    /\ result = Nil
    /\ strategy = "none"
    /\ calls = <<>>
    /\ ops = <<>>
    /\ instances = {Coord("a", DefaultProject, "c1")}
    /\ copyArgs = NoCopyArgs
    /\ copyRet = Nil
    /\ req = NoInstancePost
    /\ inst = NoInstance
    /\ cancelAt = "none"
    /\ HandlersIdle

Next ==
    \/ RunStart
    \/ RenameWait
    \/ RunSelect
    \/ MoveSubmit
    \/ MoveWatch
    \/ MoveWait
    \/ CopySubmit
    \/ CopyWait
    \/ DeleteSubmit
    \/ DeleteWait
    \/ \E i \in 1..Len(ops) : OpStart(i)
    \/ \E i \in 1..Len(ops) : OpSucceed(i)
    \/ \E i \in 1..Len(ops) : OpFail(i)
    \/ \E i \in 1..Len(ops) : OpCancel(i)

Spec == Init /\ [][Next]_vars

----
(* Specification of the override merge: the same program, started on        *)
(* invocations whose override lists have several entries, repeated keys,    *)
(* repeated devices, malformed entries and devices the instance lacks       *)

MaxOverrides == 2

\* every list of at most n entries of S
SeqsUpTo(S, n) == UNION { [1..m -> S] : m \in 0..n }

\* --config entries: a key given twice, a key the instance already has, and an
\* entry without "="
ConfigEntries ==
    { <<"k1", "=", "v1">>, <<"k1", "=", "v2">>, <<"k2", "=", "v3">>, <<"k3">> }

\* --device entries: a key given twice, a key the device lacks, a second device,
\* a device the instance lacks, and an entry without "," and "="
DeviceEntries ==
    { <<"eth0", ",", "mtu", "=", "9000">>, <<"eth0", ",", "mtu", "=", "1400">>,
      <<"eth0", ",", "name", "=", "x">>, <<"root", ",", "pool", "=", "p2">>,
      <<"eth9", ",", "mtu", "=", "9000">>, <<"eth0", "mtu">> }

ProfileLists == { <<>>, <<"p1", "p2">> }

\* the flags of an invocation without any override
PlainFlags ==
    [ flagNoProfiles |-> FALSE, flagProfile |-> <<>>, flagConfig |-> <<>>,
      flagInstanceOnly |-> FALSE, flagDevice |-> <<>>, flagMode |-> moveDefaultMode,
      flagStateless |-> FALSE, flagStorage |-> "", flagTarget |-> "",
      flagTargetProject |-> "", flagAllowInconsistent |-> FALSE ]

\* plain invocations: a rename, and a move to another server
InitPlain ==
    /\ c = PlainFlags
    /\ args \in { <<SourceResource, Resource("a", "c2")>>,
                  <<SourceResource, Resource("b", "c1")>> }
    /\ extensions = {}
    /\ clustered = FALSE
    /\ expanded = ExpandedDevices

\* moves to a cluster member with configuration and profile overrides
InitConfig ==
    /\ \E cfg \in SeqsUpTo(ConfigEntries, MaxOverrides), prof \in ProfileLists,
          noProf \in BOOLEAN, pool \in {"", "pool2"}, proj \in {"", "proj2"} :
            c = [PlainFlags EXCEPT !.flagTarget = "m1", !.flagConfig = cfg,
                                   !.flagProfile = prof, !.flagNoProfiles = noProf,
                                   !.flagStorage = pool, !.flagTargetProject = proj]
    /\ args \in { <<SourceResource>>, <<SourceResource, Resource("a", "c2")>>,
                  <<SourceResource, Resource("a", "")>> }
    /\ extensions = Extensions
    /\ clustered \in BOOLEAN
    /\ expanded = ExpandedDevices

\* moves to a cluster member with device overrides
InitDevice ==
    /\ \E dev \in SeqsUpTo(DeviceEntries, MaxOverrides) :
            c = [PlainFlags EXCEPT !.flagTarget = "m1", !.flagDevice = dev]
    /\ args = <<SourceResource, Resource("a", "c2")>>
    /\ extensions = Extensions
    /\ clustered = TRUE
    /\ expanded \in { ExpandedDevices, ExpandedDevicesNoMtu }

\* moves to another server, with every flag and override that the copy is given
InitCopy ==
    /\ \E flags \in [ stateless : BOOLEAN, instanceOnly : BOOLEAN,
                      allowInconsistent : BOOLEAN, noProfiles : BOOLEAN,
                      mode : Modes, placed : BOOLEAN, overridden : BOOLEAN ] :
            c = [ flagNoProfiles |-> flags.noProfiles,
                  flagProfile |-> IF flags.overridden THEN <<"p1", "p2">> ELSE <<>>,
                  flagConfig |-> IF flags.overridden THEN <<KV1>> ELSE <<>>,
                  flagInstanceOnly |-> flags.instanceOnly,
                  flagDevice |-> IF flags.overridden THEN <<DevMtu>> ELSE <<>>,
                  flagMode |-> flags.mode,
                  flagStateless |-> flags.stateless,
                  flagStorage |-> IF flags.placed THEN "pool2" ELSE "",
                  flagTarget |-> IF flags.placed THEN "m1" ELSE "",
                  flagTargetProject |-> IF flags.placed THEN "proj2" ELSE "",
                  flagAllowInconsistent |-> flags.allowInconsistent ]
    /\ args \in { <<SourceResource, Resource("b", "c1")>>,
                  <<SourceResource, Resource("b", "")>> }
    /\ extensions = Extensions
    /\ clustered = TRUE
    /\ expanded = ExpandedDevices

InitMove ==
    /\ (InitPlain \/ InitConfig \/ InitDevice \/ InitCopy)
    /\ pc = "start"
    /\ result = Nil
    /\ strategy = "none"
    /\ calls = <<>>
    /\ ops = <<>>
    /\ instances = {Coord("a", DefaultProject, "c1")}
    /\ copyArgs = NoCopyArgs
    /\ copyRet = Nil
    /\ req = NoInstancePost
    /\ inst = NoInstance
    /\ cancelAt = "none"
    /\ HandlersIdle

SpecMove == InitMove /\ [][Next]_vars

----
(* Specifications of the daemon's handlers *)

\* no move command is running
MoveIdle ==
    /\ InitPlain
    /\ args = <<SourceResource, Resource("a", "c2")>>
    /\ pc = "start"
    /\ result = Nil
    /\ strategy = "none"
    /\ calls = <<>>
    /\ ops = <<>>
    /\ instances = {Coord("a", DefaultProject, "c1")}
    /\ copyArgs = NoCopyArgs
    /\ copyRet = Nil
    /\ req = NoInstancePost
    /\ inst = NoInstance
    /\ cancelAt = "none"

\* one DELETE request for a log file, on a log directory that holds every path
\* of LogNames, none of them, or the requested one alone
InitLogs ==
    /\ MoveIdle
    /\ ACLIdle
    /\ MigrateIdle
    /\ ExecIdle
    /\ StorageIdle
    /\ logReq \in LogRequests
    /\ logFiles \in { LogNames, {}, {logReq.file} }
    /\ logEvents = <<>>
    /\ logResp = "none"

NextLogs == instanceLogDelete

SpecLogs == InitLogs /\ [][NextLogs]_vars

\* two PUT or PATCH requests on one ACL and at most one request of another
\* handler, taking their steps in any order
InitACL ==
    /\ MoveIdle
    /\ LogsIdle
    /\ MigrateIdle
    /\ ExecIdle
    /\ StorageIdle
    /\ \E info \in ACLInitial :
        /\ aclDB = <<ACLRow(ACLName, info)>>
        /\ aclReqs \in [ACLRequests -> UNION { ACLRequestsOn(info, r) : r \in ACLRequests }]
        /\ \A r \in ACLRequests : aclReqs[r] \in ACLRequestsOn(info, r)
    /\ aclOther \in ACLOthers
    /\ aclEvents = <<>>

NextACL ==
    \/ \E r \in ACLRequests : networkACLPutLoad(r)
    \/ \E r \in ACLRequests : networkACLPutUpdate(r)
    \/ \E r \in ACLRequests : networkACLPutNotify(r)
    \/ networkACLDeleteLoad
    \/ networkACLDeleteApply
    \/ networkACLDeleteNotify
    \/ networkACLPostLoad
    \/ networkACLPostRename
    \/ networkACLPostNotify
    \/ networkACLsPostCheck
    \/ networkACLsPostCreate
    \/ networkACLsPostNotify

SpecACL == InitACL /\ [][NextACL]_vars

\* one run of lxc-to-incus over the containers of the LXC path, against a daemon
\* that holds no instance or one with the name of the second container
InitMigrate ==
    /\ MoveIdle
    /\ LogsIdle
    /\ ACLIdle
    /\ ExecIdle
    /\ StorageIdle
    /\ migFlags \in MigrateFlags
    /\ lxc \in LxcLists
    /\ lxcPresent = LxcNames(lxc)
    /\ incusNames \in { {}, {"c2"} }
    /\ migPc = "start"
    /\ migI = 1
    /\ migLog = <<>>
    /\ migResult = Nil

NextMigrate ==
    \/ MigrateStart
    \/ MigrateContainer
    \/ MigrateReturn

SpecMigrate == InitMigrate /\ [][NextMigrate]_vars

\* one request on the exec-output files of an instance whose root volume is not
\* mounted, on a directory that holds no file, one file, or every name
InitExec ==
    /\ MoveIdle
    /\ LogsIdle
    /\ ACLIdle
    /\ MigrateIdle
    /\ StorageIdle
    /\ execReq \in ExecRequests
    /\ execFiles \in { {}, {<<"exec_", "1", ".stdout">>}, ExecEntries }
    /\ execVolume = <<>>
    /\ execReverter = <<>>
    /\ execCleanup = <<>>
    /\ execResp = NoExecResponse
    /\ execEvents = <<>>

NextExec ==
    \/ instanceExecOutputsGet
    \/ instanceExecOutputGet
    \/ FileResponseRender
    \/ instanceExecOutputDelete

SpecExec == InitExec /\ [][NextExec]_vars

\* one call of daemonStorageMove on a storage that is a directory or a mounted
\* volume, with any of the entries in it and in the other volumes
InitStorage ==
    /\ MoveIdle
    /\ LogsIdle
    /\ ACLIdle
    /\ MigrateIdle
    /\ ExecIdle
    /\ dsTarget \in StorageTargets
    /\ dsLink \in {NoLink} \cup { StorageMountpoint(v[1], v[2]) : v \in StorageVolumes }
    /\ dsFS \in [StoragePaths -> SUBSET StorageEntries]
    /\ dsFS[StorageTempPath] = {}
    /\ dsLink # NoLink => dsFS[StorageVarPath] = {}
    /\ dsMounted = IF dsLink = NoLink THEN {} ELSE {StorageVolumeOf(dsLink)}
    /\ dsOld = StorageContent(dsLink, dsFS)
    /\ dsPc = "start"
    /\ dsResult = Nil

NextStorage == daemonStorageMove

SpecStorage == InitStorage /\ [][NextStorage]_vars

----
(* Vocabulary of the properties *)

CallsOf(by, op) == { i \in 1..Len(calls) : calls[i].by = by /\ calls[i].op = op }
CallsBy(by) == { i \in 1..Len(calls) : calls[i].by = by }
CallsTo(op) == { i \in 1..Len(calls) : calls[i].op = op }
OpsOf(kind) == { i \in 1..Len(ops) : ops[i].kind = kind }

CopySucceeded == \E i \in OpsOf("copy") : ops[i].status = "Success"
DeleteSucceeded == \E i \in OpsOf("delete") : ops[i].status = "Success"

\* the request, read off the command line
ReqWellFormed ==
    /\ \A i \in 1..Len(args) : args[i].remote \in Remotes
    /\ \/ Len(args) = 2
       \/ /\ Len(args) = 1
          /\ c.flagTarget # "" \/ c.flagStorage # "" \/ c.flagTargetProject # ""
ReqSameConnection == Len(args) = 1 \/ args[2].remote = args[1].remote
ReqNoTarget == c.flagTarget = "" /\ c.flagStorage = "" /\ c.flagTargetProject = ""
ReqNoOverride ==
    /\ c.flagConfig = <<>>
    /\ c.flagDevice = <<>>
    /\ c.flagProfile = <<>>
    /\ ~c.flagNoProfiles
ReqSourceCoord == Coord(args[1].remote, DefaultProject, args[1].name)

\* Run has decided how to execute the request
Selected == pc \notin {"start", "select"}

----
(* C1 *)

\* C1: in a client-mediated copy the source is deleted (a delete operation exists, or
\* the instance is gone from the source coordinates) only if the copy operation has
\* reached Success, and the instance exists at the source or at the destination.
C1_SourceDeletedOnlyAfterCopy ==
    strategy = "ClientMediatedCopy" =>
        /\ (OpsOf("delete") # {} \/ ReqSourceCoord \notin instances) => CopySucceeded
        /\ ReqSourceCoord \in instances \/ CopyDstCoord \in instances

C1_Witness ==
    /\ strategy = "ClientMediatedCopy"
    /\ pc = "done"
    /\ DeleteSucceeded
    /\ ReqSourceCoord \notin instances
    /\ CopyDstCoord \in instances

----
(* C2 *)

\* C2: the delete of the source is issued only after copyInstance has returned
\* success with the copy operation in state Success; when copyInstance returns an
\* error, Run makes no delete call and returns that error.
C2_DeleteStrictlyAfterCopy ==
    /\ (pc \in {"delete", "delete_wait"} \/ CallsBy("cmdDelete") # {})
          => (copyRet = Nil /\ CopySucceeded)
    /\ (pc = "done" /\ strategy = "ClientMediatedCopy" /\ copyRet # Nil)
          => (CallsBy("cmdDelete") = {} /\ OpsOf("delete") = {} /\ result = copyRet)

C2_Witness ==
    /\ pc = "done"
    /\ strategy = "ClientMediatedCopy"
    /\ \E i \in OpsOf("copy") : ops[i].status = "Failure"
    /\ copyRet = Err("OperationFailure")
    /\ result = copyRet
    /\ CallsBy("cmdDelete") = {}

----
(* C3 *)

\* C3: once the caller's cancellation has been observed while the copy operation was
\* not yet terminal, no delete is ever issued and the source instance stays in place,
\* whatever the server does with the copy operation afterwards.
C3_CancelPreventsDelete ==
    (strategy = "ClientMediatedCopy" /\ cancelAt \in {"Pending", "Running"}) =>
        /\ pc = "done"
        /\ result # Nil
        /\ CallsBy("cmdDelete") = {}
        /\ OpsOf("delete") = {}
        /\ ReqSourceCoord \in instances

C3_Witness ==
    /\ strategy = "ClientMediatedCopy"
    /\ cancelAt = "Running"
    /\ pc = "done"
    /\ CopySucceeded
    /\ ReqSourceCoord \in instances

----
(* C4 *)

\* the delete of the source was attempted and did not succeed
DeleteFailed == CallsBy("cmdDelete") # {} /\ pc = "done" /\ ~DeleteSucceeded

\* C4: when the copy succeeded and the delete failed, Run returns an error that
\* carries the delete-failure message in front of the cause, and no error returned
\* for a failed copy carries that message.
C4_DeleteFailureDistinct ==
    (pc = "done" /\ strategy = "ClientMediatedCopy") =>
        /\ DeleteFailed =>
              /\ result # Nil
              /\ result.cause # "nil"
              /\ Len(result.chain) > 0
              /\ result.chain[1] = DeleteFailedMsg
        /\ copyRet # Nil =>
              \A i \in 1..Len(result.chain) : result.chain[i] # DeleteFailedMsg

C4_Witness ==
    /\ pc = "done"
    /\ strategy = "ClientMediatedCopy"
    /\ CopySucceeded
    /\ \E i \in OpsOf("delete") : ops[i].status = "Failure"
    /\ result = Errorf(DeleteFailedMsg, Err("OperationFailure"))

----
(* C5 *)

\* C5: a well-formed request on one connection with no target member, pool or project
\* and no override is executed as a rename, and makes no relocation, copy or delete
\* call.
C5_PlainSameConnectionIsRename ==
    (pc # "start" /\ ReqWellFormed /\ ReqSameConnection /\ ReqNoTarget /\ ReqNoOverride) =>
        /\ strategy = "Rename"
        /\ pc \in {"rename_wait", "done"}
        /\ CallsTo("MigrateInstance") = {}
        /\ CallsTo("CopyInstance") = {}
        /\ CallsTo("DeleteInstance") = {}
        /\ CallsBy("moveInstance") = {} /\ CallsBy("copyInstance") = {}
        /\ CallsBy("cmdDelete") = {}
        /\ \A i \in 1..Len(ops) : ops[i].kind = "rename"

C5_Witness ==
    /\ ReqWellFormed /\ ReqSameConnection /\ ReqNoTarget /\ ReqNoOverride
    /\ pc = "done"
    /\ result = Nil
    /\ strategy = "Rename"
    /\ CallsTo("RenameInstance") # {}
    /\ instances = {Coord("a", DefaultProject, "c2")}

----
(* C6 *)

\* the extensions cover every override and change the request asks for
CapabilitiesSatisfied ==
    /\ ~ReqNoOverride => "instance_move_config" \in extensions
    /\ c.flagStorage # "" => "instance_pool_move" \in extensions
    /\ c.flagTargetProject # "" => "instance_project_move" \in extensions

\* the caller asked for no transfer mode other than the default
DefaultModeRequested == c.flagMode \in {"", moveDefaultMode}

\* the capability probe of the selection could not connect
ProbeFailed == \E i \in CallsOf("Run", "GetInstanceServer") : calls[i].err # Nil

\* C6: for a request that reached the selection with a reachable peer, the server-side
\* move is selected exactly when the connection is the same, no non-default mode was
\* asked for and the peer's capabilities cover the request; else the copy is selected.
C6_ServerSideIffEligible ==
    (Selected /\ strategy \in {"ServerSideMove", "ClientMediatedCopy"} /\ ~ProbeFailed) =>
        /\ strategy = "ServerSideMove" <=>
              (ReqSameConnection /\ DefaultModeRequested /\ CapabilitiesSatisfied)

----
(* C7 *)

ConfigOverrideWithoutCapability ==
    /\ ReqWellFormed
    /\ Len(c.flagConfig) > 0
    /\ "instance_move_config" \notin extensions

\* C7: a request with a config override against a peer without
\* instance_move_config is executed by the client-mediated copy, never by the
\* server-side move, on one connection as on two, with or without a target
\* member, pool or project.
C7_ConfigOverrideSelectsCopy ==
    (Selected /\ ConfigOverrideWithoutCapability) => strategy = "ClientMediatedCopy"

----
(* C8 *)

\* C8: Rename exactly for a same-connection request with no target and no
\* override, and a same-connection request with an override and no target is executed
\* by the server-side move when the peer has the capability and the mode is default,
\* not rejected.
C8_RenameIffPlainElseMove ==
    /\ pc # "start" =>
          (strategy = "Rename" <=>
              (ReqWellFormed /\ ReqSameConnection /\ ReqNoTarget /\ ReqNoOverride))
    /\ (pc = "done" /\ ReqWellFormed /\ ReqSameConnection /\ ReqNoTarget /\ ~ReqNoOverride
          /\ CapabilitiesSatisfied /\ c.flagMode = moveDefaultMode)
          => strategy = "ServerSideMove"

----
(* C9 *)

PoolOrProjectWithoutCapability ==
    \/ c.flagStorage # "" /\ "instance_pool_move" \notin extensions
    \/ c.flagTargetProject # "" /\ "instance_project_move" \notin extensions

\* C9: a same-connection request for a pool or project change the peer has no
\* capability for is handed to copyInstance with the pool and project asked for: Run
\* neither refuses it nor calls moveInstance.
C9_MissingCapabilityFallsToCopy ==
    (Selected /\ ReqWellFormed /\ ReqSameConnection /\ PoolOrProjectWithoutCapability) =>
        /\ strategy = "ClientMediatedCopy"
        /\ CallsBy("moveInstance") = {}
        /\ pc = "copy" \/ CallsBy("copyInstance") # {}
        /\ copyArgs.move
        /\ copyArgs.pool = c.flagStorage
        /\ copyArgs.flagTargetProject = c.flagTargetProject

C9_Witness ==
    /\ ReqWellFormed /\ ReqSameConnection
    /\ c.flagStorage = "pool2" /\ c.flagTargetProject = "" /\ c.flagTarget = ""
    /\ "instance_pool_move" \notin extensions
    /\ c.flagMode = moveDefaultMode
    /\ ~ProbeFailed
    /\ pc = "copy_wait"
    /\ \E i \in OpsOf("copy") : ops[i].status = "Running"

----
(* C10 *)

\* Run has gone on from a successful copy to the delete
PastCopy == pc = "delete_wait" \/ (pc = "done" /\ CallsBy("copyInstance") # {} /\ copyRet = Nil)

\* C10: a request between two connections is executed as a client-mediated copy
\* without any capability probe; the copy runs in the mode the caller chose (the
\* default when none was given); and once Run has gone on from the successful copy,
\* one delete has been issued, on the source connection for the source instance.
C10_CrossConnectionCopy ==
    (Selected /\ ReqWellFormed /\ ~ReqSameConnection) =>
        /\ strategy = "ClientMediatedCopy"
        /\ CallsBy("Run") = {} /\ CallsBy("moveInstance") = {}
        /\ copyArgs.mode = (IF c.flagMode = "" THEN moveDefaultMode ELSE c.flagMode)
        /\ \A i \in OpsOf("copy") : ops[i].mode = copyArgs.mode
        /\ PastCopy =>
              /\ Cardinality(CallsOf("cmdDelete", "GetInstanceServer")) = 1
              /\ Cardinality(CallsTo("DeleteInstance")) <= 1
              /\ \A i \in CallsBy("cmdDelete") : calls[i].remote = args[1].remote
              /\ \A i \in CallsTo("DeleteInstance") : calls[i].name = args[1].name
              /\ \A i \in OpsOf("delete") : ops[i].src = ReqSourceCoord
        /\ (pc = "done" /\ result = Nil) =>
              /\ Cardinality(CallsTo("DeleteInstance")) = 1
              /\ Cardinality(OpsOf("delete")) = 1

C10_Witness ==
    /\ ReqWellFormed /\ ~ReqSameConnection
    /\ c.flagMode = "relay"
    /\ extensions = {}
    /\ pc = "done" /\ result = Nil
    /\ \E i \in OpsOf("copy") : ops[i].mode = "relay" /\ ops[i].status = "Success"
    /\ instances = {Coord("b", DefaultProject, "c1")}

----
(* C11 *)

\* the request carries both a list of profiles and the instruction to drop them
ConflictingProfiles == Len(c.flagProfile) > 0 /\ c.flagNoProfiles

\* C11: a request that supplies both a profiles override and no-profiles is
\* refused before any call on the connection provider, whichever strategy would
\* otherwise apply: no call is made, no operation is submitted, and Run ends with
\* an error.
C11_ConflictingProfilesRejected ==
    (ReqWellFormed /\ ConflictingProfiles) =>
        /\ calls = <<>>
        /\ ops = <<>>
        /\ pc = "done" => result # Nil

----
(* C12 *)

\* moveInstance has built the request it hands to MigrateInstance
ReqBuilt == req.Migration

\* the --device entries that name device d, and those that also name key k
EntriesOf(d) == { i \in 1..Len(c.flagDevice) : <<c.flagDevice[i][1]>> = d }
EntriesOfKey(d, k) == { i \in EntriesOf(d) : <<c.flagDevice[i][3]>> = k }

\* the devices and the keys the caller overrides, and the value given last
OverriddenDevices == { <<c.flagDevice[i][1]>> : i \in 1..Len(c.flagDevice) }
OverriddenKeys(d) == { <<c.flagDevice[i][3]>> : i \in EntriesOf(d) }
LastOverride(d, k) ==
    LET last == CHOOSE i \in EntriesOfKey(d, k) : \A j \in EntriesOfKey(d, k) : j <= i
    IN <<c.flagDevice[last][5]>>

\* C12: in a server-side move the request carries a definition for exactly the
\* devices the caller overrides; each is the device's expanded definition with the
\* override's keys laid on top: a key of the override has the override's value, a
\* key only the expanded definition has keeps its value.
C12_DevicesMergedOntoExpanded ==
    (strategy = "ServerSideMove" /\ ReqBuilt) =>
        /\ DOMAIN req.Devices = OverriddenDevices
        /\ \A d \in OverriddenDevices :
            /\ DOMAIN req.Devices[d] = DOMAIN expanded[d] \cup OverriddenKeys(d)
            /\ \A k \in DOMAIN req.Devices[d] :
                req.Devices[d][k] = IF k \in OverriddenKeys(d) THEN LastOverride(d, k)
                                    ELSE expanded[d][k]

C12_Witness ==
    /\ strategy = "ServerSideMove"
    /\ pc = "done" /\ result = Nil
    /\ expanded = ExpandedDevices
    /\ c.flagDevice = << <<"eth0", ",", "mtu", "=", "9000">>,
                         <<"eth0", ",", "name", "=", "x">> >>
    /\ DOMAIN req.Devices = { <<"eth0">> }
    /\ req.Devices[<<"eth0">>] =
          (<<"type">> :> <<"nic">>) @@ (<<"mtu">> :> <<"9000">>) @@ (<<"name">> :> <<"x">>)
    /\ \E i \in OpsOf("migrate") : ops[i].status = "Success"

----
(* C13 *)

\* the caller overrides a device that the instance's expanded devices lack
NamesUnknownDevice == \E d \in OverriddenDevices : d \notin DOMAIN expanded

\* moveInstance has fetched the instance to merge the device overrides onto
InstanceFetched == \E i \in CallsTo("GetInstance") : calls[i].err = Nil

\* C13: when a device override names a device that the instance's expanded
\* devices lack, a server-side move whose fetch of the instance succeeded ends
\* by returning the error UnknownDevice, and submits no relocation operation.
C13_UnknownDeviceReturned ==
    (strategy = "ServerSideMove" /\ NamesUnknownDevice /\ InstanceFetched) =>
        /\ pc = "done"
        /\ result.cause = "UnknownDevice"
        /\ CallsTo("MigrateInstance") = {}
        /\ ops = <<>>

----
(* C14 *)

\* the override set moveInstance parsed from --device
ParsedOverrides == parseDeviceOverrides(c.flagDevice, 1, <<>>).deviceMap

\* C14: the device override merge is idempotent: once a server-side move has
\* merged the overrides, merging the same overrides again, onto the device
\* definitions the request carries or onto the instance object that holds the
\* result of the first merge, gives the definitions of the first merge.
C14_MergeIdempotent ==
    (strategy = "ServerSideMove" /\ ReqBuilt /\ Len(c.flagDevice) > 0) =>
        /\ \A d \in DOMAIN req.Devices :
              MapsCopy(req.Devices[d], ParsedOverrides[d]) = req.Devices[d]
        /\ OverrideDevices(inst, ParsedOverrides) = req.Devices

C14_Witness ==
    /\ strategy = "ServerSideMove"
    /\ pc = "move_wait"
    /\ expanded = ExpandedDevices
    /\ c.flagDevice = << <<"eth0", ",", "mtu", "=", "1400">>,
                         <<"root", ",", "pool", "=", "p2">> >>
    /\ req.Devices[<<"eth0">>][<<"mtu">>] = <<"1400">>
    /\ inst.ExpandedDevices[<<"root">>][<<"pool">>] = <<"p2">>

----
(* C15 *)

\* the keys the caller gave with --config, the entries for a key, and the value
\* given last for it
CallerKeys == { <<c.flagConfig[i][1]>> : i \in 1..Len(c.flagConfig) }
ConfigEntriesOf(k) == { i \in 1..Len(c.flagConfig) : <<c.flagConfig[i][1]>> = k }
LastConfig(k) ==
    LET last == CHOOSE i \in ConfigEntriesOf(k) : \A j \in ConfigEntriesOf(k) : j <= i
    IN <<c.flagConfig[last][3]>>

\* C15: the configuration map of the request of a server-side move has exactly
\* the keys the caller gave, each with the value given last for it, and no key
\* taken from the configuration the instance already has.
C15_ConfigIsCallersKeys ==
    (strategy = "ServerSideMove" /\ ReqBuilt) =>
        /\ DOMAIN req.Config = CallerKeys
        /\ \A k \in CallerKeys : req.Config[k] = LastConfig(k)
        /\ \A k \in DOMAIN InstanceConfig \ CallerKeys : k \notin DOMAIN req.Config

C15_Witness ==
    /\ strategy = "ServerSideMove"
    /\ pc = "done" /\ result = Nil
    /\ c.flagConfig = << <<"k1", "=", "v1">>, <<"k1", "=", "v2">> >>
    /\ req.Config = (<<"k1">> :> <<"v2">>)
    /\ \E i \in OpsOf("migrate") : ops[i].status = "Success"

----
(* C16 *)

\* C16: the request of a server-side move carries exactly the caller's list of
\* profiles when that list is not empty, an empty list of profiles when the
\* caller gave --no-profiles without a list, and no list of profiles (the
\* instance keeps its own) when the caller gave neither.
C16_ProfilesResolution ==
    (strategy = "ServerSideMove" /\ ReqBuilt) =>
        /\ Len(c.flagProfile) > 0 =>
              (~req.Profiles.isNil /\ req.Profiles.list = c.flagProfile)
        /\ (Len(c.flagProfile) = 0 /\ c.flagNoProfiles) =>
              (~req.Profiles.isNil /\ req.Profiles.list = <<>>)
        /\ (Len(c.flagProfile) = 0 /\ ~c.flagNoProfiles) => req.Profiles.isNil

C16_Witness ==
    /\ strategy = "ServerSideMove"
    /\ pc = "done" /\ result = Nil
    /\ c.flagNoProfiles /\ c.flagProfile = <<>>
    /\ req.Profiles = [isNil |-> FALSE, list |-> <<>>]
    /\ \E i \in OpsOf("migrate") : ops[i].status = "Success"

----
(* C17 *)

\* C17: whichever strategy executes the request, a destination reference
\* without an instance name means that the instance keeps the name it has at
\* the source: every rename, relocation or copy that Run submits, and the
\* request of a server-side move, carries the source instance's name.
C17_EmptyDestinationKeepsName ==
    (ReqWellFormed /\ destName = "") =>
        /\ \A i \in OpsOf("rename") \cup OpsOf("migrate") \cup OpsOf("copy") :
              ops[i].dst.name = args[1].name
        /\ ReqBuilt => req.Name = args[1].name

----
(* C18 *)

\* C18: the rename sends one rename request, for the source instance and
\* carrying the destination name as the caller gave it; it submits nothing
\* else; Run returns only once the call has failed or the operation is
\* terminal, and then returns the failure of the call or of the operation as
\* it is, without wrapping it and without sending the rename again.
C18_RenameOnceUnchanged ==
    strategy = "Rename" =>
        /\ Cardinality(CallsTo("RenameInstance")) <= 1
        /\ CallsBy("moveInstance") \cup CallsBy("copyInstance") \cup CallsBy("cmdDelete") = {}
        /\ \A i \in CallsTo("RenameInstance") :
              calls[i].remote = args[1].remote /\ calls[i].name = args[1].name
        /\ Len(ops) <= 1
        /\ \A i \in 1..Len(ops) :
              /\ ops[i].kind = "rename"
              /\ ops[i].src = ReqSourceCoord
              /\ ops[i].dst = Coord(args[1].remote, DefaultProject, args[2].name)
        /\ pc \in {"rename_wait", "done"}
        /\ pc = "rename_wait" => Len(ops) = 1
        /\ pc = "done" =>
              IF ops = <<>>
              THEN result # Nil /\ result = calls[Len(calls)].err
              ELSE ops[1].status \in Terminal /\ result = OpErr(ops[1])

C18_Witness ==
    /\ strategy = "Rename"
    /\ pc = "done"
    /\ args[2] = Resource("a", "c2")
    /\ Len(ops) = 1 /\ ops[1].status = "Failure"
    /\ result = Err("OperationFailure")
    /\ Cardinality(CallsTo("RenameInstance")) = 1
    /\ instances = {ReqSourceCoord}

----
(* C19 *)

\* the name the instance is to have: the destination's, or the source's when
\* the destination reference has none
RequestedName ==
    IF Len(args) = 2 /\ args[2].name # "" THEN args[2].name ELSE args[1].name

\* the project the instance is to be in
RequestedProject ==
    IF c.flagTargetProject # "" THEN c.flagTargetProject ELSE DefaultProject

\* C19: a server-side move submits at most one relocation operation, through one
\* MigrateInstance call on the source connection for the source instance; the
\* request carries the destination name, the caller's overrides, the storage
\* pool, the project and the target member; and the executor never calls
\* copyInstance, never deletes and never renames.
C19_SingleRelocationRequest ==
    strategy = "ServerSideMove" =>
        /\ CallsBy("copyInstance") \cup CallsBy("cmdDelete") = {}
        /\ CallsTo("DeleteInstance") \cup CallsTo("RenameInstance") = {}
        /\ OpsOf("copy") \cup OpsOf("delete") \cup OpsOf("rename") = {}
        /\ Cardinality(CallsTo("MigrateInstance")) <= 1
        /\ \A i \in CallsTo("MigrateInstance") :
              calls[i].remote = args[1].remote /\ calls[i].name = args[1].name
        /\ ReqBuilt <=> CallsTo("MigrateInstance") # {}
        /\ Len(ops) <= 1
        /\ Len(ops) = 1 <=> (\E i \in CallsTo("MigrateInstance") : calls[i].err = Nil)
        /\ \A i \in 1..Len(ops) :
              /\ ops[i].kind = "migrate"
              /\ ops[i].src = ReqSourceCoord
              /\ ops[i].dst = Coord(args[1].remote, RequestedProject, RequestedName)
        /\ ReqBuilt =>
              /\ req.Name = RequestedName
              /\ req.Pool = c.flagStorage
              /\ req.Project = c.flagTargetProject
              /\ req.target = c.flagTarget
              /\ DOMAIN req.Config = CallerKeys
              /\ DOMAIN req.Devices = OverriddenDevices
              /\ req.Profiles.isNil <=> (Len(c.flagProfile) = 0 /\ ~c.flagNoProfiles)

C19_Witness ==
    /\ strategy = "ServerSideMove"
    /\ pc = "done" /\ result = Nil
    /\ args = <<SourceResource, Resource("a", "c2")>>
    /\ c.flagStorage = "pool2" /\ c.flagTargetProject = "proj2" /\ c.flagTarget = "m1"
    /\ c.flagConfig = << <<"k2", "=", "v3">> >>
    /\ req.Pool = "pool2" /\ req.Project = "proj2" /\ req.Name = "c2"
    /\ Cardinality(CallsTo("MigrateInstance")) = 1
    /\ Len(ops) = 1 /\ ops[1].status = "Success"
    /\ instances = {Coord("a", "proj2", "c2")}

----
(* C20 *)

\* the step in which the server-side move returns an error to its caller
MoveReturnsError ==
    pc # "done" /\ pc' = "done" /\ strategy' = "ServerSideMove" /\ result' # Nil

\* C20: whenever the server-side move returns an error to its caller, before
\* or after the submission, the instance is at its original coordinates at
\* that return.
C20_ErrorReturnLeavesInstance ==
    [][ MoveReturnsError => ReqSourceCoord \in instances' ]_vars

----
(* C21 *)

\* the causes of the errors that come from a remote server
RemoteCauses == {"Unreachable", "RequestFailed", "OperationFailure", "OperationCancelled"}

\* the errors the servers have given to the client so far: those of the calls,
\* those of the operations, and the one op.AddHandler may give once an
\* operation exists
ReceivedErrors ==
    { calls[i].err : i \in { j \in 1..Len(calls) : calls[j].err # Nil } }
    \cup { OpErr(ops[i]) : i \in { j \in 1..Len(ops) : ops[j].status \in {"Failure", "Cancelled"} } }
    \cup { e \in CallErrs : e # Nil /\ ops # <<>> }

\* Run has returned an error that came from a remote server
RemoteErrorReturned == pc = "done" /\ result.cause \in RemoteCauses

\* the delete of the source was attempted
DeleteAttempted == CallsBy("cmdDelete") # {}

\* the claim as stated: a remote error that is not the classified failure of the
\* delete of the source reaches the caller as the very value the server gave
C21_Original ==
    (RemoteErrorReturned /\ ~DeleteAttempted) => result \in ReceivedErrors /\ result.chain = <<>>

\* the message moveInstance puts in front of a remote error
MoveWrapOf(err) ==
    IF ops # <<>>
    THEN IF err.cause \in {"OperationFailure", "OperationCancelled"}
         THEN <<"Migration operation failure">> ELSE <<>>
    ELSE IF calls[Len(calls)].op = "GetInstanceServer"
    THEN <<"Failed to connect to cluster member">>
    ELSE IF calls[Len(calls)].op = "MigrateInstance" THEN <<"Migration API failure">>
    ELSE <<>>

\* a remote error that Run has returned has the cause the server gave and
\* carries the message of the executor that returned it, and nothing else
RemoteErrorAsReceived ==
    RemoteErrorReturned =>
        /\ \E e \in ReceivedErrors : e.cause = result.cause
        /\ result.chain =
              IF strategy = "ServerSideMove" THEN MoveWrapOf(result)
              ELSE IF DeleteAttempted THEN <<DeleteFailedMsg>>
              ELSE <<>>

\* in this step an executor makes a call that the server answers with an error;
\* the connection of isServerSide's probe is not a call of an executor
ExecutorCallFails ==
    /\ pc # "select"
    /\ Len(calls') > Len(calls)
    /\ calls'[Len(calls')].err # Nil

\* what the executor that made the call returns for its error
CallErrorReturned(call) ==
    IF call.by = "moveInstance" /\ call.op = "GetInstanceServer"
    THEN Errorf("Failed to connect to cluster member", call.err)
    ELSE IF call.by = "moveInstance" /\ call.op = "MigrateInstance"
    THEN Errorf("Migration API failure", call.err)
    ELSE IF call.by = "cmdDelete" THEN Errorf(DeleteFailedMsg, call.err)
    ELSE call.err

\* in this step a wait ends on an operation that failed or was cancelled
WaitEndsOnFailure ==
    /\ pc \in {"rename_wait", "move_wait", "copy_wait", "delete_wait"}
    /\ pc' # pc
    /\ CurOp.status \in {"Failure", "Cancelled"}

\* what the executor that waited returns for the error of the operation
WaitErrorReturned(at, err) ==
    IF at = "move_wait" THEN Errorf("Migration operation failure", err)
    ELSE IF at = "delete_wait" THEN Errorf(DeleteFailedMsg, err)
    ELSE err

\* C21: every error an executor receives from a server, from a call or from
\* the operation it waited for, ends Run with that error as its cause: as it
\* came by the rename and by the copy, behind one message of moveInstance by
\* the server-side move (none for the errors of GetInstance and of
\* AddHandler), and behind the message of the failed delete of the source;
\* and a remote error that Run returns is one it received, with no other
\* message added.
C21_RemoteCausePreserved ==
    [][ /\ ExecutorCallFails =>
              pc' = "done" /\ result' = CallErrorReturned(calls'[Len(calls')])
        /\ WaitEndsOnFailure =>
              pc' = "done" /\ result' = WaitErrorReturned(pc, OpErr(CurOp))
        /\ (pc = "move_watch" /\ pc' = "done") => result' \in CallErrs \ {Nil}
        /\ RemoteErrorAsReceived' ]_vars

C21_Witness ==
    /\ strategy = "ServerSideMove"
    /\ pc = "done"
    /\ Len(ops) = 1 /\ ops[1].status = "Failure"
    /\ cancelAt = "none"
    /\ result = [chain |-> <<"Migration operation failure">>, cause |-> "OperationFailure"]

----
(* C22 *)

\* the connection to the source failed while Run probed its capabilities
SelectionProbeFailed == strategy # "Rename" /\ ProbeFailed

\* C22: when the connection to the source cannot be established while Run
\* probes the capabilities, Run stops with the error Unreachable: no server-side
\* move, copy or delete is started afterwards and no connection is attempted
\* again.
C22_ProbeFailureStops ==
    SelectionProbeFailed =>
        /\ pc = "done" => result = Err("Unreachable")
        /\ CallsBy("moveInstance") \cup CallsBy("copyInstance") \cup CallsBy("cmdDelete") = {}
        /\ Cardinality(CallsTo("GetInstanceServer")) = 1
        /\ ops = <<>>

----
(* C23 *)
(* The operations belong to the servers, whose code is not part of the     *)
(* repository's sources: the client only submits them, watches them and    *)
(* waits for them, and never writes a status.                              *)

----
(* C24 *)

\* the positions at which the client waits on the operation it submitted last
WaitPositions == {"rename_wait", "move_wait", "copy_wait", "delete_wait"}

\* C24: a wait on an operation ends only when the operation is terminal, or on
\* the caller's interrupt, and then the cancellation request has been placed on
\* the operation by the time control returns; and an operation becomes
\* Cancelled only by a step of its server, taken after such a request, in which
\* the client does not move.
C24_WaitAndCooperativeCancel ==
    [][ /\ (pc \in WaitPositions /\ pc' # pc) =>
              \/ ops[Len(ops)].status \in Terminal
              \/ ops'[Len(ops)].cancelReq /\ cancelAt' \in {"Pending", "Running"}
        /\ \A i \in 1..Len(ops) :
              (ops[i].status # "Cancelled" /\ ops'[i].status = "Cancelled") =>
                  /\ ops[i].cancelReq
                  /\ pc' = pc /\ result' = result /\ calls' = calls ]_vars

C24_Witness ==
    /\ strategy = "ServerSideMove"
    /\ pc = "done"
    /\ cancelAt = "Pending"
    /\ Len(ops) = 1 /\ ops[1].cancelReq /\ ops[1].status = "Cancelled"
    /\ result.cause = "CanceledByUser"

----
(* C25 *)

\* every operation of the strategy Run took has reached Success
StrategyCompleted ==
    /\ \A i \in 1..Len(ops) : ops[i].status = "Success"
    /\ strategy = "Rename" => Cardinality(OpsOf("rename")) = 1
    /\ strategy = "ServerSideMove" => Cardinality(OpsOf("migrate")) = 1
    /\ strategy = "ClientMediatedCopy" =>
          (Cardinality(OpsOf("copy")) = 1 /\ Cardinality(OpsOf("delete")) = 1)

\* C25: Run is synchronous: it returns success only when every operation of the
\* strategy it took has reached Success, and it has not returned while an
\* operation it submitted is still Pending or Running unless the caller
\* interrupted the wait.
C25_Synchronous ==
    (pc = "done" /\ strategy # "none") =>
        /\ result = Nil => StrategyCompleted
        /\ (\E i \in 1..Len(ops) : ops[i].status \in {"Pending", "Running"})
              => cancelAt \in {"Pending", "Running"}

----
(* C26 *)

\* the steps of the client, and the steps of the servers
ClientStep ==
    \/ RunStart \/ RenameWait \/ RunSelect \/ MoveSubmit \/ MoveWatch \/ MoveWait
    \/ CopySubmit \/ CopyWait \/ DeleteSubmit \/ DeleteWait
ServerStep ==
    \E i \in 1..Len(ops) : OpStart(i) \/ OpSucceed(i) \/ OpFail(i) \/ OpCancel(i)

\* the program under the assumption that the client goes on whenever it can, and
\* that the servers go on with an operation as long as it is not terminal
SpecMoveLive == InitMove /\ [][Next]_vars /\ WF_vars(ClientStep) /\ WF_vars(ServerStep)

\* Run has come to its end without returning: it panicked
Panicked == pc = "panic"

\* C26: when the servers drive every operation they were given to a terminal
\* state, every invocation of Run eventually returns, with success or with an
\* error.
C26_EventuallyReturns == <>(pc = "done")

\* what does hold: every invocation eventually returns or panics
C26_ReturnsOrPanics == <>(pc = "done" \/ Panicked)

----
(* C27 *)

\* a bare file name: not empty and without a separator
BareName(f) == f # <<>> /\ \A i \in 1..Len(f) : f[i] # "/"

\* the names the claim lets instanceLogDelete remove
DeletableLog(f) ==
    /\ BareName(f)
    /\ f \in KnownLogs \/ f[1] \in {"migration_", "snapshot_"}
    /\ f[Len(f)] = ".log"
    /\ f \notin { <<"lxc", ".log">>, <<"qemu", ".log">> }

\* C27: instanceLogDelete removes a file, or sends a lifecycle event, only for a
\* bare name that is a known log or starts with migration_ or snapshot_, that
\* ends in .log and is neither lxc.log nor qemu.log, and then it removes that
\* file alone and sends one event; for every other file name that it gets to
\* read it answers BadRequest, removes nothing and sends no event.
C27_OnlyDeletableLogsRemoved ==
    [][ logResp' # logResp =>
          /\ (logFiles' # logFiles \/ logEvents' # logEvents) =>
                /\ DeletableLog(logReq.file)
                /\ logReq.file \in logFiles
                /\ logFiles' = logFiles \ {logReq.file}
                /\ logEvents' = Append(logEvents, LogDeletedEvent(logReq.file))
                /\ logResp' = "EmptySyncResponse"
          /\ (logReq.early = "ok" /\ ~DeletableLog(logReq.file)) =>
                /\ logResp' = "BadRequest"
                /\ logFiles' = logFiles
                /\ logEvents' = logEvents ]_vars

C27_Witness ==
    /\ logResp = "EmptySyncResponse"
    /\ logReq.file = <<"qemu.early", ".log">>
    /\ logFiles = LogNames \ { <<"qemu.early", ".log">> }
    /\ logEvents = << LogDeletedEvent(<<"qemu.early", ".log">>) >>

----
(* C28 *)

\* the lifecycle events sent for request r
ACLEventsOf(r) == { i \in 1..Len(aclEvents) : aclEvents[i].requestor = r }

\* the database holds the ACL the requests name
ACLExists == ACLByName(aclDB, ACLName) # {}

\* the ACL the requests name, as the database holds it
ACLStored == aclDB[ACLIdOf(aclDB, ACLName)].info

\* request r, which finds the ACL, carries an ETag that is not the ACL's
ACLEtagMismatch(r) ==
    /\ aclReqs[r].early = "ok"
    /\ ACLExists
    /\ aclReqs[r].ifMatch.present
    /\ aclReqs[r].ifMatch.etag # Etag(ACLStored)

\* C28: when a PUT or PATCH request carries an ETag that is not the current
\* ETag of the ACL at the time the handler loads it, the handler answers
\* PreconditionFailed in that step, which leaves the ACL and the lifecycle
\* events as they are; and a request answered PreconditionFailed has not called
\* Update and has no lifecycle event.
C28_EtagMismatchRejected ==
    [][ \A r \in ACLRequests :
          /\ (aclReqs[r].pc = "start" /\ aclReqs'[r].pc # "start" /\ ACLEtagMismatch(r)) =>
                /\ aclReqs'[r].pc = "done"
                /\ aclReqs'[r].resp = "PreconditionFailed"
                /\ aclDB' = aclDB
                /\ aclEvents' = aclEvents
          /\ aclReqs'[r].resp = "PreconditionFailed" =>
                /\ aclReqs'[r].updateCalls = 0
                /\ \A i \in 1..Len(aclEvents') : aclEvents'[i].requestor # r ]_vars

C28_Witness ==
    /\ aclReqs[1].method = "PATCH"
    /\ aclReqs[1].ifMatch = IfMatch(StaleEtag)
    /\ aclReqs[1].resp = "PreconditionFailed"
    /\ aclReqs[2].method = "PUT"
    /\ aclReqs[2].ifMatch = IfMatch(Etag(ACLInfo("d0", ("k1" :> "a"))))
    /\ aclReqs[2].resp = "EmptySyncResponse"
    /\ aclOther = ACLNoOther
    /\ ACLExists
    /\ ACLStored = ACLInfo("d2", ("k2" :> "b"))
    /\ ACLEventsOf(1) = {} /\ ACLEventsOf(2) # {}

----
(* C29 *)

\* a server-side move has built its request with device overrides
DevicesMerged == strategy = "ServerSideMove" /\ ReqBuilt /\ Len(c.flagDevice) > 0

\* the claim as stated: the instance object that was fetched still has the
\* expanded devices it was fetched with
C29_Original == DevicesMerged => inst.ExpandedDevices = expanded

\* C29: the device override merge works in place on the instance object that
\* moveInstance fetched: once the request is built, the object's definition of
\* every overridden device is the merged definition that the request carries,
\* its other devices are as fetched, and the expanded devices that the server
\* holds are those of the fetch.
C29_MergeInPlaceOnFetchedObject ==
    DevicesMerged =>
        /\ DOMAIN inst.ExpandedDevices = DOMAIN expanded
        /\ \A d \in DOMAIN req.Devices : inst.ExpandedDevices[d] = req.Devices[d]
        /\ \A d \in DOMAIN expanded \ DOMAIN req.Devices :
              inst.ExpandedDevices[d] = expanded[d]
        /\ GetInstance(args[1].name).ExpandedDevices = expanded

C29_Witness ==
    /\ DevicesMerged
    /\ pc = "done" /\ result = Nil
    /\ expanded = ExpandedDevices
    /\ c.flagDevice = << <<"eth0", ",", "mtu", "=", "9000">> >>
    /\ inst.ExpandedDevices[<<"eth0">>][<<"mtu">>] = <<"9000">>
    /\ expanded[<<"eth0">>][<<"mtu">>] = <<"1500">>
    /\ inst.ExpandedDevices[<<"root">>] = expanded[<<"root">>]

----
(* C30 *)

\* Run has handed the request to copyInstance
CopyCalled == strategy = "ClientMediatedCopy" /\ pc \notin {"start", "select"}

\* C30: the copy of a client-mediated move is given every override and flag of
\* the request as the caller gave it: target member, target project, storage
\* pool, the config, device and profile overrides, no-profiles, allow-inconsistent
\* and instance-only, the stateful flag as the negation of stateless, the
\* transfer mode (the default one for an empty mode), and the two resources.
C30_CopyReceivesRequestUnchanged ==
    CopyCalled =>
        /\ copyArgs.flagTarget = c.flagTarget
        /\ copyArgs.flagTargetProject = c.flagTargetProject
        /\ copyArgs.pool = c.flagStorage
        /\ copyArgs.flagConfig = c.flagConfig
        /\ copyArgs.flagDevice = c.flagDevice
        /\ copyArgs.flagProfile = c.flagProfile
        /\ copyArgs.flagNoProfiles = c.flagNoProfiles
        /\ copyArgs.flagAllowInconsistent = c.flagAllowInconsistent
        /\ copyArgs.instanceOnly = c.flagInstanceOnly
        /\ copyArgs.stateful = ~c.flagStateless
        /\ copyArgs.mode = (IF c.flagMode = "" THEN moveDefaultMode ELSE c.flagMode)
        /\ copyArgs.sourceResource = args[1]
        /\ copyArgs.destResource = (IF Len(args) = 2 THEN args[2] ELSE args[1])
        /\ \A i \in OpsOf("copy") : ops[i].mode = copyArgs.mode

C30_Witness ==
    /\ CopyCalled
    /\ pc = "done" /\ result = Nil
    /\ c.flagAllowInconsistent /\ c.flagStateless /\ c.flagInstanceOnly /\ c.flagNoProfiles
    /\ c.flagMode = "push" /\ c.flagTarget = "m1" /\ c.flagConfig = <<KV1>>
    /\ copyArgs.flagAllowInconsistent /\ ~copyArgs.stateful /\ copyArgs.instanceOnly
    /\ copyArgs.mode = "push" /\ copyArgs.flagTarget = "m1"
    /\ CopySucceeded /\ DeleteSucceeded

----
(* C31 *)

\* a server-side move that asks for a cluster member of a standalone server
TargetOnStandalone == strategy = "ServerSideMove" /\ c.flagTarget # "" /\ ~clustered

\* moveInstance reached the server
MoveConnected == \E i \in CallsOf("moveInstance", "GetInstanceServer") : calls[i].err = Nil

\* C31: a server-side move that requests a target cluster member against a
\* server that is not clustered never submits a relocation operation, leaves the
\* instance where it was, and returns an error; when the server was reached and
\* the source is named, the error is the one about --target and clusters.
C31_TargetNeedsCluster ==
    TargetOnStandalone =>
        /\ pc \in {"move", "done"}
        /\ CallsTo("MigrateInstance") = {}
        /\ ops = <<>>
        /\ req = NoInstancePost
        /\ instances = {ReqSourceCoord}
        /\ pc = "done" => result # Nil
        /\ pc = "done" /\ MoveConnected => result = Err("TargetOnlyWithClusters")

C31_Witness ==
    /\ TargetOnStandalone
    /\ pc = "done"
    /\ MoveConnected
    /\ result = Err("TargetOnlyWithClusters")

----
(* C32 *)

\* the positions of the config overrides that have no "="
MalformedConfigEntries == { i \in 1..Len(c.flagConfig) : ~Cut(c.flagConfig[i], "=").found }

\* C32: a server-side move whose config overrides contain an entry without "="
\* never submits a relocation operation, wherever the entry stands among the
\* overrides: it builds no request, leaves the instance where it was and returns
\* an error, which is the bad key=value error once moveInstance has reached the
\* server and has accepted the target.
C32_MalformedConfigRejected ==
    strategy = "ServerSideMove" /\ MalformedConfigEntries # {} =>
        /\ pc \in {"move", "done"}
        /\ CallsTo("MigrateInstance") = {}
        /\ ops = <<>>
        /\ req = NoInstancePost
        /\ instances = {ReqSourceCoord}
        /\ pc = "done" => result # Nil
        /\ pc = "done" /\ MoveConnected /\ ~TargetOnStandalone
              => result = Err("BadKeyValuePair")

C32_Witness ==
    /\ strategy = "ServerSideMove"
    /\ MalformedConfigEntries = {2}
    /\ pc = "done"
    /\ MoveConnected
    /\ result = Err("BadKeyValuePair")
    /\ ops = <<>>

----
(* C33 *)

\* the mode Run hands to the copy is the default one
EffectiveModeIsDefault == Mode = moveDefaultMode

\* C33: the selection and the copy agree on the transfer mode: a request on one
\* connection whose effective mode is the default pull, the empty mode included,
\* and whose overrides the reachable peer supports, is moved on the server side.
C33_SelectionUsesEffectiveMode ==
    (/\ Selected
     /\ strategy \in {"ServerSideMove", "ClientMediatedCopy"}
     /\ ~ProbeFailed
     /\ ReqSameConnection
     /\ CapabilitiesSatisfied
     /\ EffectiveModeIsDefault)
        => strategy = "ServerSideMove"

----
(* C34 *)

\* the request clears the profile list and the peer cannot take overrides
NoProfilesWithoutCapability ==
    c.flagNoProfiles /\ "instance_move_config" \notin extensions

\* C34: a request that asks to clear the profile list is never moved on the
\* server side by a peer that lacks instance_move_config.
C34_NoProfilesNeedsCapability ==
    NoProfilesWithoutCapability => strategy # "ServerSideMove"

----
(* C35 *)

\* RunE selects the container of that name
MigrateSelected(name) == migFlags.flagAll \/ Contains(migFlags.flagContainers, name)

\* the entries of the log whose conversion failed or was skipped
NotMigrated(log) == { i \in 1..Len(log) : ~log[i].selected \/ log[i].conv.err # Nil }

\* every container RunE has visited so far was handled as the flags ask: Destroy
\* was called only with the delete flag set, dry-run off and a conversion of that
\* container that created the instance and transferred its root filesystem; a
\* container whose conversion failed or was skipped still exists
MigrateLogSafe(log, present) ==
    \A i \in 1..Len(log) :
        /\ log[i].name = lxc[i].name
        /\ log[i].selected = MigrateSelected(log[i].name)
        /\ log[i].destroy # "none" =>
              /\ migFlags.flagDelete /\ ~migFlags.flagDryRun
              /\ log[i].selected
              /\ log[i].conv = Converted(Nil, TRUE, TRUE)
        /\ i \in NotMigrated(log) => log[i].destroy = "none" /\ log[i].name \in present

\* C35: lxc-to-incus destroys an LXC container only in the iteration that visits
\* it, with the delete flag set, dry-run off and after convertContainer returned
\* success for that container, having created the instance and transferred its
\* root filesystem; a container whose conversion failed or was skipped is never
\* destroyed; and once RunE has connected, it visits every container of the LXC
\* path and converts every selected one, whatever happened to the earlier ones.
C35_DestroyOnlyAfterConversion ==
    [][ /\ \A n \in lxcPresent \ lxcPresent' :
              /\ Len(migLog') = Len(migLog) + 1
              /\ migLog'[Len(migLog')].name = n
              /\ migLog'[Len(migLog')].destroy # "none"
        /\ MigrateLogSafe(migLog', lxcPresent')
        /\ migPc' = "done" /\ migResult' = Nil => Len(migLog') = Len(lxc) ]_vars

C35_Witness ==
    /\ migPc = "done" /\ migResult = Nil
    /\ migFlags.flagDelete /\ ~migFlags.flagDryRun
    /\ Len(migLog) = 3
    /\ migLog[1].selected /\ migLog[1].conv.err # Nil /\ "c1" \in lxcPresent
    /\ migLog[2].conv.created /\ migLog[2].conv.err # Nil /\ "c2" \in lxcPresent
    /\ migLog[3].destroy = "destroyed" /\ "c3" \notin lxcPresent

----
(* C36 *)

\* the positions of the mounts and of the unmounts of the root volume
ExecMounts == { i \in 1..Len(execVolume) : execVolume[i].op = "mount" }
ExecUnmounts == { i \in 1..Len(execVolume) : execVolume[i].op = "unmount" }

\* the handler has returned, and a file response it returned has been rendered
ExecDelivered == execResp # NoExecResponse /\ execResp.kind # "FileResponse"

\* who unmounts the volume a handler has mounted
ExecUnmounter == IF execReq.handler = "get" THEN "cleanup" ELSE "defer"

\* C36: in each exec-output handler a mount of the instance's root volume is
\* followed by exactly one unmount on every path: the volume is never unmounted
\* before it is mounted nor more often than it is mounted; when the list or the
\* delete handler has returned, its deferred call has unmounted what it mounted;
\* the get handler returns its file response with the volume mounted, its own
\* reverter emptied and the unmount held by the response's cleanup, and once the
\* response has been rendered the cleanup, and nothing else, has unmounted it.
C36_MountThenOneUnmount ==
    /\ Cardinality(ExecMounts) <= 1
    /\ Cardinality(ExecUnmounts) <= Cardinality(ExecMounts)
    /\ \A u \in ExecUnmounts : /\ \E m \in ExecMounts : m < u
                               /\ execVolume[u].by = ExecUnmounter
    /\ ExecDelivered => Cardinality(ExecUnmounts) = Cardinality(ExecMounts)
    /\ execResp.kind = "FileResponse" =>
          /\ Cardinality(ExecMounts) = 1 /\ ExecUnmounts = {}
          /\ execReverter = <<>>
          /\ execCleanup = <<UnmountHook>>

\* a file response that was rendered after the get handler had mounted the volume
C36_Witness ==
    /\ execReq.handler = "get"
    /\ execResp.kind = "FileSent"
    /\ execVolume = <<MountEvent, UnmountEvent("cleanup")>>

----
(* C37 *)

\* request r is a PATCH that nothing stops before the "patch" loop, on the ACL
\* as the database holds it now
ACLPatchAccepted(r) ==
    /\ aclReqs[r].method = "PATCH"
    /\ aclReqs[r].early = "ok"
    /\ ACLExists
    /\ EtagCheck(aclReqs[r].ifMatch, Etag(ACLStored))
    /\ ~aclReqs[r].body.malformed

\* config is existing overlaid with requested
ACLOverlay(config, existing, requested) ==
    /\ DOMAIN config = DOMAIN existing \cup DOMAIN requested
    /\ \A k \in DOMAIN requested : config[k] = requested[k]
    /\ \A k \in DOMAIN existing \ DOMAIN requested : config[k] = existing[k]

\* C37: a PATCH that passes the checks of the handler goes on to Update with
\* the existing config overlaid with the config of the request, for every body,
\* the one without a config map included.
C37_PatchOverlaysConfig ==
    [][ \A r \in ACLRequests :
            aclReqs[r].pc = "start" /\ aclReqs'[r].pc # "start" /\ ACLPatchAccepted(r) =>
                /\ aclReqs'[r].pc = "update"
                /\ ACLOverlay(aclReqs'[r].put.config, ACLStored.config,
                              aclReqs[r].body.config) ]_vars

----
(* C38 *)

\* both requests carry the ETag of one version of the ACL
ACLSameEtag ==
    /\ aclReqs[1].ifMatch.present
    /\ aclReqs[2].ifMatch.present
    /\ aclReqs[1].ifMatch.etag = aclReqs[2].ifMatch.etag

\* the requests whose update netACL.Update applied to the database
ACLApplied == { r \in ACLRequests : aclReqs[r].pc = "notify" \/ ACLEventsOf(r) # {} }

\* C38: of two concurrent requests that carry the ETag of the same version of
\* the ACL, at most one is applied.
C38_AtMostOneApplied == ACLSameEtag => Cardinality(ACLApplied) <= 1

----
(* C39 *)

\* the entries that exist in some directory
StorageAnywhere == UNION { dsFS[p] : p \in StoragePaths }

\* the call returned without error
StorageMoved == dsPc = "done" /\ dsResult = Nil

\* C39: daemonStorageMove never loses data: whatever it returns, every entry of
\* the old storage location still exists in the old or in the new one, and after
\* a successful return every entry of the old location is found at the storage
\* path, for every target, the volume in use included.
C39_NoDataLost ==
    /\ dsOld \subseteq StorageAnywhere
    /\ StorageMoved => dsOld \subseteq StorageContent(dsLink, dsFS)

====
